---- MODULE Spec2Model ----
(***************************************************************************)
(* A model of the perilib stream protocol engine: the codec of             *)
(* StreamProtocol (pack_values / unpack_values), the protocol strategies   *)
(* (TLV, LTV, text line and a user-defined command protocol), and the      *)
(* parser/generator StreamParserGenerator with its receive queue, its two  *)
(* deadlines and the send / wait rendezvous, driven through a UartStream.  *)
(***************************************************************************)
EXTENDS Integers, Sequences, FiniteSets, TLC

VARIABLES pg, stream, now, app, hist, codec, manager

vars == <<pg, stream, now, app, hist, codec, manager>>

(***************************************************************************)
(* Bounds of the model.                                                    *)
(***************************************************************************)
\* bytes passed to parse() in a framing run
MaxFeed == 5
\* bytes in one parse() call
MaxChunk == 3
\* process() calls that find bytes in the port in a rendezvous run
MaxReads == 1
\* last clock reading
MaxTime == 3
\* send_packet / send_and_wait / wait_packet calls in a rendezvous run
MaxCalls == 2
\* fields in a field list of a codec run
MaxFields == 2
\* bytes passed to queue() in a queue run
MaxQueued == 4
\* devices a manager may find connected
MaxDevices == 2

(***************************************************************************)
(* common.py: ProcessMode.                                                 *)
(***************************************************************************)
SELF == 1
SUBS == 2
BOTH == 3

(***************************************************************************)
(* common.py: ParseStatus.                                                 *)
(***************************************************************************)
IDLE == 0
STARTING == 1
IN_PROGRESS == 2
COMPLETE == 3

\* Python's None, for a name or a timeout
None == "None"

(***************************************************************************)
(* Values as Python sees them: an int, a bytes object or a list of ints.   *)
(* The payload is always a sequence so that any two values compare.        *)
(***************************************************************************)
IntVal(n) == [t |-> "int", v |-> <<n>>]
BytesVal(s) == [t |-> "bytes", v |-> s]
ListVal(s) == [t |-> "list", v |-> s]

RECURSIVE Pow256(_)
Pow256(w) == IF w = 0 THEN 1 ELSE 256 * Pow256(w - 1)

RECURSIVE Zeros(_)
Zeros(n) == IF n <= 0 THEN <<>> ELSE <<0>> \o Zeros(n - 1)

\* s[:n] and s[n:] of Python, for 0 <= n
\* the element of a one-element set: Only({F(x) : x \in {e}}) is F(e) with e
\* evaluated once
Only(S) == CHOOSE x \in S : TRUE

Take(s, n) == IF n >= Len(s) THEN s ELSE SubSeq(s, 1, n)
Drop(s, n) == IF n >= Len(s) THEN <<>> ELSE SubSeq(s, n + 1, Len(s))

(***************************************************************************)
(* StreamProtocol.types: the struct format items and the width of each     *)
(* field type. A format item is [c, n]: a struct code and, for "s", the    *)
(* byte count. The leading "<" (little-endian, no padding) is implied.     *)
(***************************************************************************)
Item(c, n) == [c |-> c, n |-> n]

types ==
    [ty \in {"uint8", "uint16", "uint32", "int8", "int16", "int32", "macaddr",
             "uint8a-l8v", "uint8a-l16v", "uint8a-greedy", "uint8a-fixed"} |->
        CASE ty = "uint8"         -> [pack |-> <<Item("B", 1)>>, width |-> 1]
          [] ty = "uint16"        -> [pack |-> <<Item("H", 2)>>, width |-> 2]
          [] ty = "uint32"        -> [pack |-> <<Item("L", 4)>>, width |-> 4]
          [] ty = "int8"          -> [pack |-> <<Item("b", 1)>>, width |-> 1]
          [] ty = "int16"         -> [pack |-> <<Item("h", 2)>>, width |-> 2]
          [] ty = "int32"         -> [pack |-> <<Item("l", 4)>>, width |-> 4]
          [] ty = "macaddr"       -> [pack |-> <<Item("s", 6)>>, width |-> 6]
          [] ty = "uint8a-l8v"    -> [pack |-> <<Item("B", 1)>>, width |-> 1]
          [] ty = "uint8a-l16v"   -> [pack |-> <<Item("H", 2)>>, width |-> 2]
          [] ty = "uint8a-greedy" -> [pack |-> <<>>, width |-> 0]
          [] ty = "uint8a-fixed"  -> [pack |-> <<>>, width |-> 0]]

Field(name, ty, width) == [name |-> name, type |-> ty, width |-> width]

\* the struct codes of signed integers
SignedCode(c) == c \in {"b", "h", "l"}

(***************************************************************************)
(* struct.pack / struct.unpack for the codes above.                        *)
(***************************************************************************)
RECURSIVE LEBytes(_, _)
LEBytes(n, w) == IF w = 0 THEN <<>> ELSE <<n % 256>> \o LEBytes(n \div 256, w - 1)

RECURSIVE LEValue(_)
LEValue(s) == IF s = <<>> THEN 0 ELSE Head(s) + 256 * LEValue(Tail(s))

IntInRange(n, item) ==
    IF SignedCode(item.c)
    THEN -(Pow256(item.n) \div 2) <= n /\ n < Pow256(item.n) \div 2
    ELSE 0 <= n /\ n < Pow256(item.n)

\* one item packed: the bytes, or <<-1>> when struct.error is raised
PackItem(item, val) ==
    IF item.c = "s"
    THEN IF val.t = "bytes" THEN Take(val.v \o Zeros(item.n - Len(val.v)), item.n)
         ELSE <<-1>>
    ELSE IF val.t = "int" /\ IntInRange(val.v[1], item)
         THEN LEBytes(IF val.v[1] < 0 THEN val.v[1] + Pow256(item.n) ELSE val.v[1],
                      item.n)
         ELSE <<-1>>

RECURSIVE struct_pack(_, _)
struct_pack(fmt, vals) ==
    IF fmt = <<>> THEN [ok |-> vals = <<>>, bytes |-> <<>>]
    ELSE IF vals = <<>> THEN [ok |-> FALSE, bytes |-> <<>>]
    ELSE Only({IF one = <<-1>> \/ ~rest.ok THEN [ok |-> FALSE, bytes |-> <<>>]
               ELSE [ok |-> TRUE, bytes |-> one \o rest.bytes] :
               one \in {PackItem(Head(fmt), Head(vals))},
               rest \in {struct_pack(Tail(fmt), Tail(vals))}})

RECURSIVE FormatSize(_)
FormatSize(fmt) == IF fmt = <<>> THEN 0 ELSE Head(fmt).n + FormatSize(Tail(fmt))

UnpackItem(item, bytes) ==
    IF item.c = "s" THEN BytesVal(bytes)
    ELSE LET u == LEValue(bytes)
         IN IntVal(IF SignedCode(item.c) /\ u >= Pow256(item.n) \div 2
                   THEN u - Pow256(item.n) ELSE u)

RECURSIVE UnpackItems(_, _)
UnpackItems(fmt, buffer) ==
    IF fmt = <<>> THEN <<>>
    ELSE <<UnpackItem(Head(fmt), Take(buffer, Head(fmt).n))>>
         \o UnpackItems(Tail(fmt), Drop(buffer, Head(fmt).n))

struct_unpack(fmt, buffer) ==
    IF FormatSize(fmt) # Len(buffer) THEN [ok |-> FALSE, vals |-> <<>>]
    ELSE [ok |-> TRUE, vals |-> UnpackItems(fmt, buffer)]

(***************************************************************************)
(* StreamProtocol.calculate_packing_info                                   *)
(***************************************************************************)
RECURSIVE calculate_packing_info(_)
calculate_packing_info(fields) ==
    IF fields = <<>> THEN [pack_format |-> <<>>, expected_length |-> 0]
    ELSE LET field == Head(fields)
             own == IF field.type = "uint8a-fixed"
                    THEN [pack |-> <<Item("s", field.width)>>, width |-> field.width]
                    ELSE types[field.type]
         IN Only({[pack_format |-> own.pack \o rest.pack_format,
                   expected_length |-> own.width + rest.expected_length] :
                   rest \in {calculate_packing_info(Tail(fields))}})

\* bytes(x) of Python for the three kinds of value
ToBytes(val) == IF val.t = "int" THEN Zeros(val.v[1]) ELSE val.v

(***************************************************************************)
(* StreamProtocol.pack_values. The loop over the fields appends the blob   *)
(* formats to the END of packing_info["pack_format"] (in place) and the    *)
(* values to value_list; then struct.pack. The result carries the buffer,  *)
(* the error raised ("none" when it returns) and the record as left.       *)
(***************************************************************************)
RECURSIVE PackLoop(_, _, _, _)
PackLoop(values, fields, fmt, value_list) ==
    IF fields = <<>> THEN [err |-> "none", fmt |-> fmt, value_list |-> value_list]
    ELSE LET field == Head(fields)
         IN IF field.name \notin DOMAIN values
            THEN [err |-> "PerilibProtocolException", fmt |-> fmt,
                  value_list |-> value_list]
            ELSE IF field.type \in {"uint8a-l8v", "uint8a-l16v"}
            THEN LET blob == ToBytes(values[field.name])
                 IN PackLoop(values, Tail(fields),
                             fmt \o <<Item("s", Len(blob))>>,
                             value_list \o <<IntVal(Len(blob)), BytesVal(blob)>>)
            ELSE IF field.type = "uint8a-greedy"
            THEN LET blob == ToBytes(values[field.name])
                 IN PackLoop(values, Tail(fields),
                             fmt \o <<Item("s", Len(blob))>>,
                             value_list \o <<BytesVal(blob)>>)
            ELSE PackLoop(values, Tail(fields), fmt,
                          value_list \o <<values[field.name]>>)

pack_values(values, fields, packing_info) ==
    Only({LET info == [packing_info EXCEPT !.pack_format = loop.fmt]
          IN IF loop.err # "none"
             THEN [err |-> loop.err, buffer |-> <<>>, packing_info |-> info]
             ELSE Only({IF ~packed.ok
                        THEN [err |-> "struct.error", buffer |-> <<>>,
                              packing_info |-> info]
                        ELSE [err |-> "none", buffer |-> packed.bytes,
                              packing_info |-> info] :
                        packed \in {struct_pack(loop.fmt, loop.value_list)}}) :
          loop \in {PackLoop(values, fields, packing_info.pack_format, <<>>)}})

(***************************************************************************)
(* StreamProtocol.unpack_values. The result carries the value map (a       *)
(* function from the field names to values) and the error raised.          *)
(***************************************************************************)
NoValues == [n \in {} |-> IntVal(0)]

RECURSIVE UnpackLoop(_, _, _, _, _, _)
UnpackLoop(buffer, fields, i, unpacked, expected_length, values) ==
    IF i > Len(fields) THEN [err |-> "none", values |-> values]
    ELSE LET field == fields[i]
             put(val) == UnpackLoop(buffer, fields, i + 1, unpacked, expected_length,
                                    [n \in DOMAIN values \cup {field.name} |->
                                        IF n = field.name THEN val ELSE values[n]])
         IN IF field.type = "uint8a-greedy"
            THEN put(BytesVal(Drop(buffer, expected_length)))
            ELSE IF i > Len(unpacked)
            THEN [err |-> "IndexError", values |-> values]
            ELSE IF field.type \in {"uint8a-l8v", "uint8a-l16v"}
            THEN IF unpacked[i].t # "int"
                 THEN [err |-> "TypeError", values |-> values]
                 ELSE IF unpacked[i].v[1] + expected_length # Len(buffer)
                 \* the message is formatted with values[field["name"]], a key
                 \* the dictionary holds only if an earlier field had this name
                 THEN [err |-> IF field.name \in DOMAIN values
                               THEN "PerilibProtocolException" ELSE "KeyError",
                       values |-> values]
                 ELSE put(BytesVal(Drop(buffer, expected_length)))
            ELSE IF field.type = "macaddr"
            THEN IF unpacked[i].t # "bytes"
                 THEN [err |-> "TypeError", values |-> values]
                 ELSE put(ListVal(unpacked[i].v))
            ELSE put(unpacked[i])

unpack_values(buffer, fields, packing_info) ==
    IF packing_info.expected_length > Len(buffer)
    THEN [err |-> "PerilibProtocolException", values |-> NoValues]
    ELSE Only({IF ~unpacked.ok THEN [err |-> "struct.error", values |-> NoValues]
               ELSE UnpackLoop(buffer, fields, 1, unpacked.vals,
                               packing_info.expected_length, NoValues) :
               unpacked \in {struct_unpack(packing_info.pack_format,
                                           Take(buffer, packing_info.expected_length))}})

(***************************************************************************)
(* The protocol strategies. "TLV", "LTV" and "Text" are the supplied       *)
(* classes; "Cmd" is a user-defined subclass of StreamProtocol of the kind *)
(* its docstrings describe: a frame is the start byte 0x55 followed by a   *)
(* packet id, the start test answers STARTING after the start byte, and    *)
(* the definitions name a command with a required response.                *)
(***************************************************************************)
Protocols == {"TLV", "LTV", "Text", "Cmd"}

\* the start byte of a Cmd frame
SYNC == 85

\* StreamProtocol.py:39-41 and TextStreamProtocol.py:7-9, as ordered lists
backspace_bytes(cls) == IF cls = "Text" THEN <<8, 127>> ELSE <<>>
terminal_bytes(cls) == IF cls = "Text" THEN <<10>> ELSE <<>>
trim_bytes(cls) == IF cls = "Text" THEN <<10, 13>> ELSE <<>>

InList(b, list) == \E i \in 1..Len(list) : list[i] = b

\* the packet definitions of the Cmd protocol, by packet id
CmdArgs == <<Field("sync", "uint8", 0), Field("id", "uint8", 0)>>
CmdDefinitions ==
    <<[name |-> "ping", id |-> 1, has_response_required |-> TRUE,
       response_required |-> "pong"],
      [name |-> "pong", id |-> 2, has_response_required |-> FALSE,
       response_required |-> None],
      [name |-> "evt", id |-> 3, has_response_required |-> FALSE,
       response_required |-> None],
      [name |-> "ack", id |-> 5, has_response_required |-> TRUE,
       response_required |-> None]>>
\* ids the Cmd start test lets through (4 has no definition)
CmdIds == {1, 2, 3, 4, 5}

(***************************************************************************)
(* test_packet_start: the default answers IN_PROGRESS for any byte.        *)
(***************************************************************************)
test_packet_start(cls, buffer) ==
    IF cls = "Cmd"
    THEN IF buffer[1] # SYNC THEN IDLE
         ELSE IF Len(buffer) = 1 THEN STARTING
         ELSE IF buffer[2] \in CmdIds THEN IN_PROGRESS
         ELSE IDLE
    ELSE IN_PROGRESS

\* test_packet_complete with the LTV length byte counting the value alone
test_packet_complete_ltv_value_only(cls, buffer) ==
    CASE cls = "LTV" ->
            IF Len(buffer) > 1 /\ Len(buffer) = buffer[1] + 2
            THEN COMPLETE ELSE IN_PROGRESS
      [] cls = "TLV" ->
            IF Len(buffer) > 1 /\ Len(buffer) = buffer[2] + 2
            THEN COMPLETE ELSE IN_PROGRESS
      [] cls = "Cmd" ->
            IF Len(buffer) = 2 THEN COMPLETE ELSE IN_PROGRESS
      [] cls = "Blob" ->
            IF Len(buffer) = 3 THEN COMPLETE ELSE IN_PROGRESS
      [] OTHER ->
            IF Len(terminal_bytes(cls)) > 0
            THEN IF InList(buffer[Len(buffer)], terminal_bytes(cls))
                 THEN COMPLETE ELSE IN_PROGRESS
            ELSE COMPLETE

\* test_packet_complete with the TLV length byte counting itself as well
test_packet_complete_tlv_counts_length(cls, buffer) ==
    CASE cls = "LTV" ->
            IF Len(buffer) = buffer[1] + 1 THEN COMPLETE ELSE IN_PROGRESS
      [] cls = "TLV" ->
            IF Len(buffer) > 1 /\ Len(buffer) = buffer[2] + 1
            THEN COMPLETE ELSE IN_PROGRESS
      [] cls = "Cmd" ->
            IF Len(buffer) = 2 THEN COMPLETE ELSE IN_PROGRESS
      [] cls = "Blob" ->
            IF Len(buffer) = 3 THEN COMPLETE ELSE IN_PROGRESS
      [] OTHER ->
            IF Len(terminal_bytes(cls)) > 0
            THEN IF InList(buffer[Len(buffer)], terminal_bytes(cls))
                 THEN COMPLETE ELSE IN_PROGRESS
            ELSE COMPLETE

(***************************************************************************)
(* test_packet_complete: the default (terminal bytes, else COMPLETE) and   *)
(* the overrides of LTV, TLV and Cmd, and of Blob, an application's        *)
(* protocol of three-byte frames that hold one uint8a-l8v field.           *)
(***************************************************************************)
test_packet_complete(cls, buffer) ==
    CASE cls = "LTV" ->
            IF Len(buffer) = buffer[1] + 1 THEN COMPLETE ELSE IN_PROGRESS
      [] cls = "TLV" ->
            IF Len(buffer) > 1 /\ Len(buffer) = buffer[2] + 2
            THEN COMPLETE ELSE IN_PROGRESS
      [] cls = "Cmd" ->
            IF Len(buffer) = 2 THEN COMPLETE ELSE IN_PROGRESS
      [] cls = "Blob" ->
            IF Len(buffer) = 3 THEN COMPLETE ELSE IN_PROGRESS
      [] OTHER ->
            IF Len(terminal_bytes(cls)) > 0
            THEN IF InList(buffer[Len(buffer)], terminal_bytes(cls))
                 THEN COMPLETE ELSE IN_PROGRESS
            ELSE COMPLETE

(***************************************************************************)
(* StreamPacket: a packet is its name, its buffer and its payload; the     *)
(* constructor builds the payload from the buffer (build_structure_from_   *)
(* buffer) or the buffer from the payload (build_buffer_from_structure).   *)
(***************************************************************************)
NoPacket == [name |-> None, buffer |-> <<>>, payload |-> NoValues]

build_structure_from_buffer(name, args, buffer) ==
    Only({[err |-> payload.err,
           packet |-> IF payload.err = "none"
                      THEN [name |-> name, buffer |-> buffer, payload |-> payload.values]
                      ELSE NoPacket] :
           payload \in {unpack_values(buffer, args, calculate_packing_info(args))}})

build_buffer_from_structure(name, args, payload) ==
    Only({[err |-> packed.err,
           packet |-> IF packed.err = "none"
                      THEN [name |-> name, buffer |-> packed.buffer, payload |-> payload]
                      ELSE NoPacket] :
           packed \in {pack_values(payload, args, calculate_packing_info(args))}})

\* the first definition of a list with a true mark, as a list of 0 or 1
CmdLookup(marks) ==
    IF \E i \in 1..Len(marks) : marks[i]
    THEN <<CmdDefinitions[CHOOSE i \in 1..Len(marks) :
                            marks[i] /\ \A j \in 1..(i - 1) : ~marks[j]]>>
    ELSE <<>>

\* the args of the definition LTVStreamProtocol unpacks every frame with
LTVArgs ==
    <<Field("length", "uint8", 0), Field("type", "uint8", 0),
      Field("value", "uint8a-greedy", 0)>>

(***************************************************************************)
(* get_packet_from_buffer of each protocol class.                          *)
(***************************************************************************)
get_packet_from_buffer(cls, buffer) ==
    CASE cls = "Text" ->
            build_structure_from_buffer("text_packet",
                <<Field("text", "uint8a-greedy", 0)>>, buffer)
      [] cls = "LTV" ->
            build_structure_from_buffer("ltv_packet", LTVArgs, buffer)
      [] cls = "TLV" ->
            build_structure_from_buffer("tlv_packet",
                <<Field("type", "uint8", 0), Field("length", "uint8", 0),
                  Field("value", "uint8a-greedy", 0)>>, buffer)
      [] cls = "Blob" ->
            build_structure_from_buffer("blob_packet",
                <<Field("data", "uint8a-l8v", 0)>>, buffer)
      [] cls = "Cmd" ->
            Only({IF found = <<>>
                  THEN [err |-> "PerilibProtocolException", packet |-> NoPacket]
                  ELSE build_structure_from_buffer(found[1].name, CmdArgs, buffer) :
                  found \in {CmdLookup([i \in 1..Len(CmdDefinitions) |->
                                          Len(buffer) >= 2
                                          /\ CmdDefinitions[i].id = buffer[2]])}})

(***************************************************************************)
(* get_packet_from_name_and_args: the base class (and so TLV, LTV, Text)   *)
(* raises; Cmd looks the name up and packs the frame. The result carries   *)
(* the definition found.                                                   *)
(***************************************************************************)
NoDefinition ==
    [name |-> None, id |-> 0, has_response_required |-> FALSE,
     response_required |-> None]

get_packet_from_name_and_args(cls, packet_name) ==
    IF cls = "Cmd"
    THEN Only({IF found = <<>>
               THEN [err |-> "PerilibProtocolException", packet |-> NoPacket,
                     definition |-> NoDefinition]
               ELSE build_buffer_from_structure(found[1].name, CmdArgs,
                        [n \in {"sync", "id"} |->
                            IF n = "sync" THEN IntVal(SYNC) ELSE IntVal(found[1].id)])
                    @@ [definition |-> found[1]] :
               found \in {CmdLookup([i \in 1..Len(CmdDefinitions) |->
                                       CmdDefinitions[i].name = packet_name])}})
    ELSE [err |-> "PerilibProtocolException", packet |-> NoPacket,
          definition |-> NoDefinition]

(***************************************************************************)
(* StreamParserGenerator. A parser/generator is a record of the object's   *)
(* attributes. The application's observers record what they are given:     *)
(* on_rx_packet_calls, on_rx_error_calls, ... are the arguments of the     *)
(* calls so far. handed lists the buffers passed to get_packet_from_buffer,*)
(* start_answers the answers of test_packet_start during the last          *)
(* parse_byte, frame_started_at the clock reading at the byte that last    *)
(* took the parser out of IDLE, and raised names the exception that left   *)
(* the running call ("none" when it returned).                             *)
(* observer is what the application's on_rx_packet does: "record" returns  *)
(* at once, "send_and_wait" calls send_and_wait("ping") when it is given   *)
(* an evt packet, "send_packet" calls send_packet("ping") and "parse"      *)
(* calls parse() with an evt frame when they are given a pong packet. observer_stack holds one frame per on_rx_packet          *)
(* invocation that has not returned: the release_wait_lock of the          *)
(* parse_byte that made it and where the observer is. suspended says that  *)
(* the running call stands at such an invocation, and reentered that       *)
(* on_rx_packet was invoked while an earlier invocation had not returned.  *)
(***************************************************************************)
\* a timeout attribute that is None
NoTimeout == -1

\* the observer attributes of a parser/generator whose application has
\* assigned an observer of its own to each attribute the class declares
AppObservers ==
    [on_rx_packet |-> "app", on_tx_packet |-> "app", on_rx_error |-> "app",
     on_incoming_packet_timeout |-> "app", on_response_packet_timeout |-> "app",
     on_waiting_packet_timeout |-> None]

\* the observer attributes after __init__ (lines 64-68)
NoObservers ==
    [on_rx_packet |-> None, on_tx_packet |-> None, on_rx_error |-> None,
     on_incoming_packet_timeout |-> None, on_response_packet_timeout |-> None,
     on_waiting_packet_timeout |-> None]

StreamParserGenerator(protocol_class, incoming_packet_timeout, response_packet_timeout) ==
    [protocol_class |-> protocol_class,
     incoming_packet_timeout |-> incoming_packet_timeout,
     response_packet_timeout |-> response_packet_timeout,
     rx_packet |-> NoPacket,
     response_pending |-> None,
     rx_deque |-> <<>>,
     incoming_packet_t0 |-> 0,
     response_packet_t0 |-> 0,
     wait_packet_event |-> FALSE,
     wait_timed_out |-> FALSE,
     rx_buffer |-> <<>>,
     parser_status |-> IDLE,
     on_rx_packet_calls |-> <<>>,
     on_tx_packet_calls |-> <<>>,
     on_rx_error_calls |-> <<>>,
     on_incoming_packet_timeout_calls |-> <<>>,
     on_response_packet_timeout_calls |-> <<>>,
     handed |-> <<>>,
     start_answers |-> <<>>,
     start_accepted |-> FALSE,
     frame_started_at |-> 0,
     raised |-> "none",
     observer |-> "record",
     callbacks |-> AppObservers,
     observer_stack |-> <<>>,
     suspended |-> FALSE,
     reentered |-> FALSE]

\* the running call has ended (an exception) or stands in an observer
Stopped(p) == p.raised # "none" \/ p.suspended

reset(p) ==
    [p EXCEPT !.rx_buffer = <<>>, !.parser_status = IDLE, !.incoming_packet_t0 = 0]

\* the observers, called when the attribute of that name holds one
on_rx_packet(p, packet) ==
    IF p.callbacks.on_rx_packet = None THEN p
    ELSE [p EXCEPT !.on_rx_packet_calls = Append(@, packet),
                   !.reentered = @ \/ p.observer_stack # <<>>]
on_tx_packet(p, packet) ==
    IF p.callbacks.on_tx_packet = None THEN p
    ELSE [p EXCEPT !.on_tx_packet_calls = Append(@, packet)]
on_rx_error(p, e, buffer) ==
    IF p.callbacks.on_rx_error = None THEN p
    ELSE [p EXCEPT !.on_rx_error_calls = Append(@, buffer)]
on_incoming_packet_timeout(p, buffer) ==
    IF p.callbacks.on_incoming_packet_timeout = None THEN p
    ELSE [p EXCEPT !.on_incoming_packet_timeout_calls = Append(@, buffer)]
on_response_packet_timeout(p, name) ==
    IF p.callbacks.on_response_packet_timeout = None THEN p
    ELSE [p EXCEPT !.on_response_packet_timeout_calls = Append(@, name)]

\* a call of the protocol's start test from parse_byte
RunStartTest(p) ==
    LET answer == test_packet_start(p.protocol_class, p.rx_buffer)
    IN [p EXCEPT !.parser_status = answer,
                 !.start_answers = Append(@, answer),
                 !.start_accepted = @ \/ answer \notin {IDLE, STARTING}]

\* Backspace with the defect of erasing only the backspace byte itself
BackspaceKeepsPrevious(p) ==
    LET cut == Take(p.rx_buffer, Len(p.rx_buffer) - 1)
    IN [p EXCEPT !.rx_buffer = cut,
                 !.parser_status = IF Len(cut) = 0 THEN IDLE ELSE @]

(***************************************************************************)
(* parse_byte, lines 251-262: a backspace byte removes itself and the byte *)
(* before it.                                                              *)
(***************************************************************************)
Backspace(p) ==
    LET cut == IF Len(p.rx_buffer) > 1
               THEN Take(p.rx_buffer, Len(p.rx_buffer) - 2)
               ELSE Take(p.rx_buffer, Len(p.rx_buffer) - 1)
    IN [p EXCEPT !.rx_buffer = cut,
                 !.parser_status = IF Len(cut) = 0 THEN IDLE ELSE @]

(***************************************************************************)
(* parse_byte, lines 274-278: one pass over trim_bytes, each removed from  *)
(* the end of the buffer if it is the last byte. rx_buffer[-1] raises      *)
(* IndexError on an empty buffer.                                          *)
(***************************************************************************)
RECURSIVE TrimLoop(_, _)
TrimLoop(buffer, trim) ==
    IF trim = <<>> THEN [err |-> "none", buffer |-> buffer]
    ELSE IF buffer = <<>> THEN [err |-> "IndexError", buffer |-> buffer]
    ELSE TrimLoop(IF buffer[Len(buffer)] = Head(trim)
                  THEN Take(buffer, Len(buffer) - 1) ELSE buffer,
                  Tail(trim))

\* parse_byte, lines 298-302: the observer has returned
DeliverEnd(p, release_wait_lock) ==
    IF release_wait_lock
    THEN [p EXCEPT !.response_pending = None,
                   !.wait_timed_out = FALSE,
                   !.wait_packet_event = TRUE]
    ELSE p

(***************************************************************************)
(* parse_byte, lines 287-302: a packet was built and the parser reset. An  *)
(* observer that makes calls of its own leaves parse_byte standing at line *)
(* 296 until it returns.                                                   *)
(***************************************************************************)
DeliverPacket(p) ==
    LET release_wait_lock == p.rx_packet.name = p.response_pending
        p1 == IF release_wait_lock THEN [p EXCEPT !.response_packet_t0 = 0] ELSE p
        p2 == on_rx_packet(p1, p1.rx_packet)
    IN IF \/ p.observer = "send_and_wait" /\ p.rx_packet.name = "evt"
          \/ p.observer \in {"send_packet", "parse"} /\ p.rx_packet.name = "pong"
       THEN [p2 EXCEPT !.observer_stack =
                           Append(@, [release_wait_lock |-> release_wait_lock,
                                      pc |-> "entered"]),
                       !.suspended = TRUE]
       ELSE DeliverEnd(p2, release_wait_lock)

(***************************************************************************)
(* parse_byte, lines 273-308: the frame is complete.                       *)
(***************************************************************************)
\* BuildPacket with the defect of handing the packet to on_rx_packet with the
\* frame still in the parser
BuildPacketDeliversBeforeReset(p) ==
    Only({LET p2 == [p EXCEPT !.handed = Append(@, p.rx_buffer)]
          IN IF got.err = "none"
             THEN Only({DeliverPacket(q) :
                        q \in {[p2 EXCEPT !.rx_packet = got.packet]}})
             ELSE IF got.err = "PerilibProtocolException"
             THEN reset(on_rx_error(p2, got.err, p2.rx_buffer))
             ELSE [p2 EXCEPT !.raised = got.err] :
          got \in {get_packet_from_buffer(p.protocol_class, p.rx_buffer)}})

\* BuildPacket with the defect of not resetting the parser after on_rx_error
BuildPacketKeepsFailedFrame(p) ==
    Only({LET p2 == [p EXCEPT !.handed = Append(@, p.rx_buffer)]
          IN IF got.err = "none"
             THEN Only({DeliverPacket(q) :
                        q \in {reset([p2 EXCEPT !.rx_packet = got.packet])}})
             ELSE IF got.err = "PerilibProtocolException"
             THEN on_rx_error(p2, got.err, p2.rx_buffer)
             ELSE [p2 EXCEPT !.raised = got.err] :
          got \in {get_packet_from_buffer(p.protocol_class, p.rx_buffer)}})

\* lines 280-308, the buffer trimmed: build the packet, deliver it or report
BuildPacket(p) ==
    Only({LET p2 == [p EXCEPT !.handed = Append(@, p.rx_buffer)]
          IN IF got.err = "none"
             THEN Only({DeliverPacket(q) :
                        q \in {reset([p2 EXCEPT !.rx_packet = got.packet])}})
             ELSE IF got.err = "PerilibProtocolException"
             THEN reset(on_rx_error(p2, got.err, p2.rx_buffer))
             ELSE [p2 EXCEPT !.raised = got.err] :
          got \in {get_packet_from_buffer(p.protocol_class, p.rx_buffer)}})

CompletePacket(p) ==
    Only({IF trimmed.err # "none"
          THEN [p EXCEPT !.rx_buffer = trimmed.buffer, !.raised = trimmed.err]
          ELSE Only({BuildPacket(p1) : p1 \in {[p EXCEPT !.rx_buffer = trimmed.buffer]}}) :
          trimmed \in {TrimLoop(p.rx_buffer, trim_bytes(p.protocol_class))}})

\* InPacket with the defect of not asking the start test again in STARTING
InPacketSkipsStartTest(p, input_byte_as_int) ==
    LET backspace == Len(backspace_bytes(p.protocol_class)) > 0
                     /\ InList(input_byte_as_int, backspace_bytes(p.protocol_class))
    IN Only({IF p1.parser_status = COMPLETE THEN CompletePacket(p1) ELSE p1 :
             p1 \in {IF backspace THEN Backspace(p)
                     ELSE IF p.parser_status \in {STARTING, IN_PROGRESS}
                          THEN [p EXCEPT !.parser_status =
                                   test_packet_complete(p.protocol_class, p.rx_buffer)]
                          ELSE p}})

(***************************************************************************)
(* parse_byte, lines 245-308: the parser is (or may be) in a packet.       *)
(***************************************************************************)
InPacket(p, input_byte_as_int) ==
    LET backspace == Len(backspace_bytes(p.protocol_class)) > 0
                     /\ InList(input_byte_as_int, backspace_bytes(p.protocol_class))
    IN Only({IF p1.parser_status = COMPLETE THEN CompletePacket(p1) ELSE p1 :
             p1 \in {IF backspace THEN Backspace(p)
                     ELSE Only({IF q.parser_status = IN_PROGRESS
                                THEN [q EXCEPT !.parser_status =
                                        test_packet_complete(q.protocol_class,
                                                             q.rx_buffer)]
                                ELSE q :
                                q \in {IF p.parser_status = STARTING
                                       THEN RunStartTest(p) ELSE p}})}})

(***************************************************************************)
(* parse_byte(input_byte_as_int), with time.time() reading t.              *)
(***************************************************************************)
\* parse_byte, lines 234-242: the byte is appended; an idle parser asks the
\* start test and, out of IDLE with a timeout defined, starts the timer
\* StartOfByte with the defect of arming the incoming deadline again at every
\* byte of a frame
StartOfByteRearms(p, input_byte_as_int, t) ==
    IF p.parser_status = IDLE
    THEN Only({IF q.parser_status = IDLE THEN q
               ELSE IF q.incoming_packet_timeout # NoTimeout
               THEN [q EXCEPT !.frame_started_at = t, !.incoming_packet_t0 = t]
               ELSE [q EXCEPT !.frame_started_at = t] :
               q \in {RunStartTest([p EXCEPT !.rx_buffer = Append(@, input_byte_as_int),
                                             !.start_answers = <<>>])}})
    ELSE [p EXCEPT !.rx_buffer = Append(@, input_byte_as_int), !.start_answers = <<>>,
                   !.incoming_packet_t0 =
                       IF p.incoming_packet_timeout # NoTimeout THEN t ELSE @]

StartOfByte(p, input_byte_as_int, t) ==
    IF p.parser_status = IDLE
    THEN Only({IF q.parser_status = IDLE THEN q
               ELSE IF q.incoming_packet_timeout # NoTimeout
               THEN [q EXCEPT !.frame_started_at = t, !.incoming_packet_t0 = t]
               ELSE [q EXCEPT !.frame_started_at = t] :
               q \in {RunStartTest([p EXCEPT !.rx_buffer = Append(@, input_byte_as_int),
                                             !.start_answers = <<>>])}})
    ELSE [p EXCEPT !.rx_buffer = Append(@, input_byte_as_int), !.start_answers = <<>>]

parse_byte(p, input_byte_as_int, t) ==
    Only({IF p1.parser_status # IDLE THEN InPacket(p1, input_byte_as_int)
          ELSE reset(p1) :
          p1 \in {StartOfByte(p, input_byte_as_int, t)}})

\* the loop of parse() and of process(): it ends when parse_byte raises
RECURSIVE ParseBytes(_, _, _)
ParseBytes(p, data, t) ==
    IF data = <<>> \/ Stopped(p) THEN p
    ELSE Only({ParseBytes(q, Tail(data), t) : q \in {parse_byte(p, Head(data), t)}})

(***************************************************************************)
(* parse(input_data): an int goes to parse_byte, a list is converted with  *)
(* bytes(), and the bytes are parsed one at a time.                        *)
(***************************************************************************)
parse(p, input_data, t) ==
    LET p0 == [p EXCEPT !.raised = "none", !.suspended = FALSE]
    IN IF input_data.t = "int" THEN parse_byte(p0, input_data.v[1], t)
       ELSE ParseBytes(p0, ToBytes(input_data), t)

\* queue with the defect of placing the new data before the waiting bytes
queue_prepends(p, input_data) ==
    [p EXCEPT !.rx_deque = (IF input_data.t = "int" THEN input_data.v
                            ELSE ToBytes(input_data)) \o @]

(***************************************************************************)
(* queue(input_data)                                                       *)
(***************************************************************************)
queue(p, input_data) ==
    [p EXCEPT !.rx_deque = @ \o (IF input_data.t = "int" THEN input_data.v
                                 ELSE ToBytes(input_data))]

RECURSIVE DrainQueue(_, _)
DrainQueue(p, t) ==
    IF p.rx_deque = <<>> \/ Stopped(p) THEN p
    ELSE Only({DrainQueue(q, t) :
               q \in {parse_byte([p EXCEPT !.rx_deque = Tail(@)], Head(p.rx_deque), t)}})

incoming_packet_timed_out(p) ==
    reset(on_incoming_packet_timeout(p, p.rx_buffer))

\* response_packet_timed_out with the defect of leaving the deadline armed
response_packet_timed_out_stays_armed(p) ==
    [on_response_packet_timeout(p, p.response_pending) EXCEPT
        !.response_pending = None,
        !.wait_timed_out = TRUE,
        !.wait_packet_event = TRUE]

response_packet_timed_out(p) ==
    [on_response_packet_timeout(p, p.response_pending) EXCEPT
        !.response_pending = None,
        !.response_packet_t0 = 0,
        !.wait_timed_out = TRUE,
        !.wait_packet_event = TRUE]

\* CheckIncoming with the defect of firing at the deadline itself
CheckIncomingAtDeadline(p, t) ==
    IF p.raised # "none" \/ p.incoming_packet_t0 = 0 THEN p
    ELSE IF p.incoming_packet_timeout = NoTimeout THEN [p EXCEPT !.raised = "TypeError"]
    ELSE IF t - p.incoming_packet_t0 >= p.incoming_packet_timeout
    THEN incoming_packet_timed_out(p)
    ELSE p

\* process(), line 441: the incoming deadline (None > number is a TypeError)
CheckIncoming(p, t) ==
    IF Stopped(p) \/ p.incoming_packet_t0 = 0 THEN p
    ELSE IF p.incoming_packet_timeout = NoTimeout THEN [p EXCEPT !.raised = "TypeError"]
    ELSE IF t - p.incoming_packet_t0 > p.incoming_packet_timeout
    THEN incoming_packet_timed_out(p)
    ELSE p

\* process(), line 444: the response deadline
CheckResponse(p, t) ==
    IF Stopped(p) \/ p.response_packet_t0 = 0 THEN p
    ELSE IF p.response_packet_timeout = NoTimeout THEN [p EXCEPT !.raised = "TypeError"]
    ELSE IF t - p.response_packet_t0 > p.response_packet_timeout
    THEN response_packet_timed_out(p)
    ELSE p

(***************************************************************************)
(* process(), with time.time() reading t.                                  *)
(***************************************************************************)
\* process() that checks the two deadlines before it parses the queue
process_checks_first(p, t) ==
    Only({DrainQueue(checked, t) :
          checked \in {Only({CheckResponse(incoming, t) :
                             incoming \in {CheckIncoming([p EXCEPT !.raised = "none",
                                                                   !.suspended = FALSE],
                                                         t)}})}})

process(p, t) ==
    Only({CheckResponse(checked, t) :
          checked \in {Only({CheckIncoming(drained, t) :
                             drained \in {DrainQueue([p EXCEPT !.raised = "none",
                                                                !.suspended = FALSE],
                                                      t)}})}})

(***************************************************************************)
(* send_packet(_packet_name): write_ok is whether stream.write returned a  *)
(* byte count (TRUE) or False. The result is the object and the value      *)
(* returned: [kind |-> "int" | "False" | "raised" ...].                    *)
(***************************************************************************)
Ret(kind, packet) == [kind |-> kind, packet |-> packet]

\* send_packet with the defect of ending the running rendezvous when the
\* packet cannot be generated
send_packet_drops_pending(p, packet_name, write_ok, t) ==
    Only({
    LET p0 == [p EXCEPT !.raised = "none"]
    IN IF made.err # "none"
       THEN [pg |-> [p0 EXCEPT !.raised = made.err, !.response_pending = None,
                               !.response_packet_t0 = 0],
             written |-> <<>>,
             result |-> Ret("raised", NoPacket)]
       ELSE LET p1 == on_tx_packet(p0, made.packet)
                p2 == IF made.definition.has_response_required
                      THEN [p1 EXCEPT
                              !.response_pending = made.definition.response_required,
                              !.response_packet_t0 =
                                  IF made.definition.response_required # None
                                  THEN t ELSE @]
                      ELSE p1
            IN [pg |-> p2,
                written |-> IF write_ok THEN made.packet.buffer ELSE <<>>,
                result |-> IF write_ok THEN Ret("int", NoPacket)
                           ELSE Ret("False", NoPacket)] :
    made \in {get_packet_from_name_and_args(p.protocol_class, packet_name)}})

send_packet(p, packet_name, write_ok, t) ==
    Only({
    LET p0 == [p EXCEPT !.raised = "none"]
    IN IF made.err # "none"
       THEN [pg |-> [p0 EXCEPT !.raised = made.err], written |-> <<>>,
             result |-> Ret("raised", NoPacket)]
       ELSE LET p1 == on_tx_packet(p0, made.packet)
                p2 == IF made.definition.has_response_required
                      THEN [p1 EXCEPT
                              !.response_pending = made.definition.response_required,
                              !.response_packet_t0 =
                                  IF made.definition.response_required # None
                                  THEN t ELSE @]
                      ELSE p1
            IN [pg |-> p2,
                written |-> IF write_ok THEN made.packet.buffer ELSE <<>>,
                result |-> IF write_ok THEN Ret("int", NoPacket)
                           ELSE Ret("False", NoPacket)] :
    made \in {get_packet_from_name_and_args(p.protocol_class, packet_name)}})

(***************************************************************************)
(* UartStream. The stream is open on a transport; tx lists the buffers     *)
(* written, reads counts the chunks read from the port, port_open is the   *)
(* private _port_open, port_is_open the driver's port.is_open, and         *)
(* on_disconnect_device_calls counts the calls of that observer (no        *)
(* on_close_stream observer is installed). on_rx_data is None or "queue",  *)
(* an application's receive callback that queues the data on the           *)
(* parser/generator.                                                       *)
(***************************************************************************)
UartStream ==
    [is_open |-> TRUE, use_threading |-> FALSE, tx |-> <<>>, reads |-> 0,
     port_open |-> TRUE, port_is_open |-> TRUE, on_rx_data |-> "queue",
     parser_generator |-> <<>>,
     on_disconnect_device_calls |-> 0]

\* Stream.__init__ and a serial port attached to it, opened already or not
NewUartStream(port_is_open, rx_observer) ==
    [UartStream EXCEPT !.is_open = FALSE, !.port_open = FALSE,
                       !.port_is_open = port_is_open, !.on_rx_data = rx_observer]

(***************************************************************************)
(* UartStream.open(): a stream that is not open opens its port unless the  *)
(* port is open already, and is marked open. port.open() may raise         *)
(* SerialException (open_ok FALSE), which leaves open().                   *)
(***************************************************************************)
UartStream_open(st, open_ok) ==
    IF st.is_open THEN [stream |-> st, raised |-> "none"]
    ELSE IF st.port_is_open
    THEN [stream |-> [st EXCEPT !.is_open = TRUE], raised |-> "none"]
    ELSE IF open_ok
    THEN [stream |-> [st EXCEPT !.port_is_open = TRUE, !.port_open = TRUE,
                                !.is_open = TRUE],
          raised |-> "none"]
    ELSE [stream |-> st, raised |-> "SerialException"]

\* port.in_waiting raising OSError or SerialException, in place of the bytes
ReadError == <<-1>>

(***************************************************************************)
(* UartStream.close(): an open stream closes its port; stop() has no       *)
(* monitor thread to stop. is_open is left as it is.                       *)
(***************************************************************************)
UartStream_close(st) ==
    IF st.is_open /\ st.port_open
    THEN [st EXCEPT !.port_open = FALSE, !.port_is_open = FALSE]
    ELSE st

(***************************************************************************)
(* UartStream._cleanup_port_closure(): a port still open is closed, the    *)
(* stream marked closed and on_disconnect_device called.                   *)
(***************************************************************************)
cleanup_port_closure(st) ==
    IF st.port_open
    THEN [st EXCEPT !.port_open = FALSE, !.port_is_open = FALSE,
                    !.is_open = FALSE,
                    !.on_disconnect_device_calls = @ + 1]
    ELSE st

\* an application's on_rx_data observer that queues the data
on_rx_data(p, data) == queue(p, BytesVal(data))

\* Stream._on_rx_data: the data goes to the on_rx_data observer, if any
Stream_on_rx_data(st, p, data) ==
    IF st.on_rx_data # None THEN on_rx_data(p, data) ELSE p

(***************************************************************************)
(* UartStream.process(): read what is waiting in the port (in_waiting),    *)
(* hand it to the receive callback, then let the parser/generator process. *)
(* An OSError or SerialException of the port (ReadError) is caught: the    *)
(* port closure is cleaned up and the parser/generator is not processed.   *)
(***************************************************************************)
UartStream_process(st, p, in_waiting, t) ==
    LET reads == st.is_open /\ Len(in_waiting) # 0
    IN IF st.is_open /\ in_waiting = ReadError
       THEN [stream |-> cleanup_port_closure(st), pg |-> p]
       ELSE [stream |-> IF reads THEN [st EXCEPT !.reads = @ + 1] ELSE st,
             pg |-> Only({process(p1, t) :
                          p1 \in {IF reads THEN Stream_on_rx_data(st, p, in_waiting)
                                  ELSE p}})]

(***************************************************************************)
(* wait_packet, line 401: the value returned.                              *)
(***************************************************************************)
WaitResult(p) ==
    IF ~p.wait_timed_out /\ p.rx_packet # NoPacket THEN Ret("packet", p.rx_packet)
    ELSE Ret("None", NoPacket)

(***************************************************************************)
(* The state of the application thread: where it is inside wait_packet     *)
(* (pc), the call it is in or made last, the arguments, and the value the  *)
(* last call returned.                                                     *)
(***************************************************************************)
AppInit ==
    [pc |-> "idle", call |-> "none", packet_name |-> None, sent |-> None,
     response_required |-> None, entry_pending |-> None,
     ret |-> Ret("none", NoPacket), calls |-> 0]

\* what the last process() call read and did, for the properties
HistInit ==
    [op |-> "none", t |-> 0, byte |-> -1, pre_buffer |-> <<>>, pre_status |-> IDLE,
     fed |-> <<>>, status_drained |-> IDLE, frame_drained |-> 0, fired |-> FALSE]

CodecIdle ==
    [pc |-> "idle", fields |-> <<>>, values |-> NoValues, buffer |-> <<>>,
     packed |-> "none", unpacked |-> NoValues, unpacked_err |-> "none",
     info |-> [pack_format |-> <<>>, expected_length |-> 0]]

\* the timeout a protocol configures, when it configures one
TimeoutValue == 1

\* what may wait in the port when process() reads it in a rendezvous run:
\* nothing, a lone sync byte, a pong frame, an evt frame, pong then evt
PortData == {<<>>, <<SYNC>>, <<SYNC, 2>>, <<SYNC, 3>>, <<SYNC, 2, SYNC, 3>>}
\* names the application sends and waits for
SendNames == {"ping", "evt"}
WaitNames == {None, "pong"}

(***************************************************************************)
(* Manager. devices lists the ids of the known devices in the order of the *)
(* dictionary; device_filter is None or a predicate, held as the set of    *)
(* device ids it passes. on_connect_device_calls, on_disconnect_device_    *)
(* calls and device_process_calls are the devices the last process() call  *)
(* handed to the two observers and called process() on; mode and force are *)
(* its arguments, enumerated says that it asked for the connected devices  *)
(* and connected_devices is what it was given; raised names the exception  *)
(* that left it.                                                           *)
(* class is "Manager" for a child class that only lists devices, and       *)
(* "UartManager" for the serial manager, which keeps a stream for every    *)
(* device it has listed (streams, by device id), the devices disconnected  *)
(* since its last listing, auto_open and the port_info_filter. For it      *)
(* failing and open_ok are what the serial driver does during the call:    *)
(* the devices whose port raises when it is polled, and whether port.open  *)
(* succeeds; removed_streams lists the streams the call took out of the    *)
(* table, as it left them.                                                 *)
(***************************************************************************)
DeviceIds == 1..MaxDevices

NoFilter == [defined |-> FALSE, passes |-> {}]
Filter(passes) == [defined |-> TRUE, passes |-> passes]

AUTO_OPEN_NONE == 0
AUTO_OPEN_SINGLE == 1
AUTO_OPEN_ALL == 2

NoStreams == [d \in {} |-> UartStream]

Manager ==
    [class |-> "Manager",
     streams |-> NoStreams,
     recently_disconnected_devices |-> <<>>,
     auto_open |-> AUTO_OPEN_NONE,
     port_info_filter |-> NoFilter,
     on_rx_data |-> None,
     protocol_class |-> None,
     protocol_timeouts |-> [incoming_packet_timeout |-> NoTimeout,
                            response_packet_timeout |-> NoTimeout],
     on_rx_packet |-> None,
     on_tx_packet |-> None,
     on_rx_error |-> None,
     on_incoming_packet_timeout |-> None,
     on_waiting_packet_timeout |-> None,
     failing |-> {},
     open_ok |-> TRUE,
     removed_streams |-> <<>>,
     raised |-> "none",
     device_filter |-> NoFilter,
     check_interval |-> 1,
     devices |-> <<>>,
     last_process_time |-> 0,
     op |-> "none",
     mode |-> BOTH,
     force |-> FALSE,
     enumerated |-> FALSE,
     connected_devices |-> <<>>,
     on_connect_device_calls |-> <<>>,
     on_disconnect_device_calls |-> <<>>,
     device_process_calls |-> <<>>]

\* list.remove / del: the list without device_id
Without(list, device_id) == SelectSeq(list, LAMBDA d : d # device_id)

Manager_on_connect_device(m, device) ==
    [m EXCEPT !.on_connect_device_calls = Append(@, device)]

Manager_on_disconnect_device(m, device) ==
    [m EXCEPT !.on_disconnect_device_calls = Append(@, device)]

(***************************************************************************)
(* UartManager._get_connected_devices(): comports lists the serial ports.  *)
(* A port disconnected since the last listing is left out once; a known    *)
(* device is reported as it is; for any other port that passes the         *)
(* port_info_filter a stream with a closed serial port and a device are    *)
(* made and the stream is put in the table.                                *)
\* _get_connected_devices that lists a recently disconnected port like any
\* other port
RECURSIVE UartManager_list_ports_lists_recent(_, _, _)
UartManager_list_ports_lists_recent(m, comports, connected_devices) ==
    IF comports = <<>>
    THEN [manager |-> [m EXCEPT !.recently_disconnected_devices = <<>>],
          connected_devices |-> connected_devices]
    ELSE LET device == Head(comports)
         IN IF InList(device, m.devices)
            THEN UartManager_list_ports_lists_recent(m, Tail(comports),
                                        Append(connected_devices, device))
            ELSE IF m.port_info_filter.defined
                    /\ device \notin m.port_info_filter.passes
            THEN UartManager_list_ports_lists_recent(m, Tail(comports),
                                                     connected_devices)
            ELSE UartManager_list_ports_lists_recent(
                     [m EXCEPT !.streams =
                         [d \in DOMAIN m.streams \cup {device} |->
                             IF d = device THEN NewUartStream(FALSE, m.on_rx_data)
                             ELSE m.streams[d]]],
                     Tail(comports), Append(connected_devices, device))

(***************************************************************************)
RECURSIVE UartManager_list_ports(_, _, _)
UartManager_list_ports(m, comports, connected_devices) ==
    IF comports = <<>>
    THEN [manager |-> [m EXCEPT !.recently_disconnected_devices = <<>>],
          connected_devices |-> connected_devices]
    ELSE LET device == Head(comports)
         IN IF InList(device, m.recently_disconnected_devices)
            THEN UartManager_list_ports(m, Tail(comports), connected_devices)
            ELSE IF InList(device, m.devices)
            THEN UartManager_list_ports(m, Tail(comports),
                                        Append(connected_devices, device))
            ELSE IF m.port_info_filter.defined
                    /\ device \notin m.port_info_filter.passes
            THEN UartManager_list_ports(m, Tail(comports), connected_devices)
            ELSE UartManager_list_ports(
                     [m EXCEPT !.streams =
                         [d \in DOMAIN m.streams \cup {device} |->
                             IF d = device THEN NewUartStream(FALSE, m.on_rx_data)
                             ELSE m.streams[d]]],
                     Tail(comports), Append(connected_devices, device))

UartManager_get_connected_devices(m, comports) ==
    UartManager_list_ports(m, comports, <<>>)

(***************************************************************************)
(* UartManager._on_connect_device(): the application's observer, then the  *)
(* stream is opened if auto_open says so, after a parser/generator of the  *)
(* manager's protocol class has been made, given the manager's observers   *)
(* and attached to the stream; a SerialException of open() is dropped.     *)
(***************************************************************************)
\* lines 186-191: the parser/generator the manager makes and configures
UartManager_parser_generator(m) ==
    [StreamParserGenerator(m.protocol_class,
                           m.protocol_timeouts.incoming_packet_timeout,
                           m.protocol_timeouts.response_packet_timeout)
        EXCEPT !.callbacks =
            [NoObservers EXCEPT
                !.on_rx_packet = m.on_rx_packet,
                !.on_tx_packet = m.on_tx_packet,
                !.on_rx_error = m.on_rx_error,
                !.on_incoming_packet_timeout = m.on_incoming_packet_timeout,
                !.on_waiting_packet_timeout = m.on_waiting_packet_timeout]]

UartManager_on_connect_device(m, device) ==
    LET m1 == [m EXCEPT !.on_connect_device_calls = Append(@, device)]
        open_stream == \/ m.auto_open = AUTO_OPEN_ALL
                       \/ m.auto_open = AUTO_OPEN_SINGLE /\ Len(m.devices) = 1
    IN IF m.auto_open # AUTO_OPEN_NONE /\ open_stream
       THEN IF device \notin DOMAIN m1.streams
            THEN [m1 EXCEPT !.raised = "KeyError"]
            ELSE LET attached ==
                         IF m.protocol_class # None
                         THEN [m1.streams[device] EXCEPT
                                  !.parser_generator =
                                      <<UartManager_parser_generator(m)>>]
                         ELSE m1.streams[device]
                 IN [m1 EXCEPT !.streams[device] =
                                   UartStream_open(attached, m.open_ok).stream]
       ELSE m1

\* UartManager._on_disconnect_device that leaves the stream in the table
UartManager_on_disconnect_device_keeps_stream(m, device) ==
    LET m1 == [m EXCEPT !.recently_disconnected_devices = Append(@, device)]
        m2 == IF device \in DOMAIN m1.streams
              THEN [m1 EXCEPT
                      !.removed_streams =
                          Append(@, [id |-> device,
                                     stream |-> UartStream_close(m1.streams[device])]),
                      !.streams[device] = UartStream_close(@)]
              ELSE m1
        m3 == [m2 EXCEPT !.on_disconnect_device_calls = Append(@, device)]
    IN IF InList(device, m3.devices)
       THEN [m3 EXCEPT !.devices = Without(@, device)]
       ELSE [m3 EXCEPT !.raised = "KeyError"]

(***************************************************************************)
(* UartManager._on_disconnect_device(): the device is noted as recently    *)
(* disconnected, its stream closed and taken out of the table, the         *)
(* application's observer called and the device taken out of devices.      *)
(***************************************************************************)
UartManager_on_disconnect_device(m, device) ==
    LET m1 == [m EXCEPT !.recently_disconnected_devices = Append(@, device)]
        m2 == IF device \in DOMAIN m1.streams
              THEN [m1 EXCEPT
                      !.removed_streams =
                          Append(@, [id |-> device,
                                     stream |-> UartStream_close(m1.streams[device])]),
                      !.streams = [d \in DOMAIN m1.streams \ {device} |->
                                      m1.streams[d]]]
              ELSE m1
        m3 == [m2 EXCEPT !.on_disconnect_device_calls = Append(@, device)]
    IN IF InList(device, m3.devices)
       THEN [m3 EXCEPT !.devices = Without(@, device)]
       ELSE [m3 EXCEPT !.raised = "KeyError"]

\* self._on_connect_device and self._on_disconnect_device
self_on_connect_device(m, device) ==
    IF m.class = "UartManager" THEN UartManager_on_connect_device(m, device)
    ELSE Manager_on_connect_device(m, device)

self_on_disconnect_device(m, device) ==
    IF m.class = "UartManager" THEN UartManager_on_disconnect_device(m, device)
    ELSE Manager_on_disconnect_device(m, device)

\* self._get_connected_devices, of a child class that lists devices or of
\* UartManager
self_get_connected_devices(m, listed) ==
    IF m.class = "UartManager" THEN UartManager_get_connected_devices(m, listed)
    ELSE [manager |-> m, connected_devices |-> listed]

\* ConnectLoop with the filter applied before the device is taken off the
\* list of assumed disconnections
RECURSIVE ConnectLoopFilterFirst(_, _, _)
ConnectLoopFilterFirst(m, ids_to_disconnect, connected_devices) ==
    IF connected_devices = <<>> \/ m.raised # "none"
    THEN [manager |-> m, ids_to_disconnect |-> ids_to_disconnect]
    ELSE LET device_id == Head(connected_devices)
             ids == Without(ids_to_disconnect, device_id)
         IN IF m.device_filter.defined /\ device_id \notin m.device_filter.passes
            THEN ConnectLoopFilterFirst(m, ids_to_disconnect, Tail(connected_devices))
            ELSE IF ~InList(device_id, m.devices)
            THEN ConnectLoopFilterFirst(self_on_connect_device(
                                 [m EXCEPT !.devices = Append(@, device_id)], device_id),
                             ids, Tail(connected_devices))
            ELSE ConnectLoopFilterFirst(m, ids, Tail(connected_devices))

\* process, lines 136-149: the loop over the connected devices
RECURSIVE ConnectLoop(_, _, _)
ConnectLoop(m, ids_to_disconnect, connected_devices) ==
    IF connected_devices = <<>> \/ m.raised # "none"
    THEN [manager |-> m, ids_to_disconnect |-> ids_to_disconnect]
    ELSE LET device_id == Head(connected_devices)
             ids == Without(ids_to_disconnect, device_id)
         IN IF m.device_filter.defined /\ device_id \notin m.device_filter.passes
            THEN ConnectLoop(m, ids, Tail(connected_devices))
            ELSE IF ~InList(device_id, m.devices)
            THEN ConnectLoop(self_on_connect_device(
                                 [m EXCEPT !.devices = Append(@, device_id)], device_id),
                             ids, Tail(connected_devices))
            ELSE ConnectLoop(m, ids, Tail(connected_devices))

\* process, lines 152-163: the loop over the devices that went away
RECURSIVE DisconnectLoop(_, _)
DisconnectLoop(m, ids_to_disconnect) ==
    IF ids_to_disconnect = <<>> \/ m.raised # "none" THEN m
    ELSE LET device_id == Head(ids_to_disconnect)
         IN IF InList(device_id, m.devices)
            THEN DisconnectLoop(
                     Only({IF m1.raised # "none" THEN m1
                           \* del self.devices[device_id], KeyError caught
                           ELSE [m1 EXCEPT !.devices = Without(@, device_id)] :
                           m1 \in {self_on_disconnect_device(m, device_id)}}),
                     Tail(ids_to_disconnect))
            ELSE DisconnectLoop(m, Tail(ids_to_disconnect))

(***************************************************************************)
(* process, lines 166-168: process() of every device known when the loop   *)
(* starts (device_ids). A StreamDevice runs the process step of its        *)
(* stream; the stream of a device in failing finds its port raising and,   *)
(* if cleaning up closed the port, calls the manager's                     *)
(* _on_disconnect_device. The parser/generators of these streams are given *)
(* no bytes.                                                               *)
(***************************************************************************)
RECURSIVE SubsLoop(_, _, _)
SubsLoop(m, device_ids, t) ==
    IF device_ids = <<>> \/ m.raised # "none" THEN m
    ELSE LET device_id == Head(device_ids)
             m1 == [m EXCEPT !.device_process_calls = Append(@, device_id)]
         IN IF ~InList(device_id, m.devices)
            THEN [m EXCEPT !.raised = "KeyError"]
            ELSE IF m.class # "UartManager" \/ device_id \notin DOMAIN m.streams
            THEN SubsLoop(m1, Tail(device_ids), t)
            ELSE Only({SubsLoop(
                          IF polled.on_disconnect_device_calls
                             > m.streams[device_id].on_disconnect_device_calls
                          THEN UartManager_on_disconnect_device(
                                   [m1 EXCEPT !.streams[device_id] = polled],
                                   device_id)
                          ELSE [m1 EXCEPT !.streams[device_id] = polled],
                          Tail(device_ids), t) :
                       polled \in {UartStream_process(
                                       m.streams[device_id],
                                       StreamParserGenerator("Cmd", NoTimeout,
                                                             NoTimeout),
                                       IF device_id \in m.failing
                                       THEN ReadError ELSE <<>>, t).stream}})

(***************************************************************************)
(* Manager.process(mode, force), with time.time() reading t and listed     *)
(* what there is for _get_connected_devices() to find: the devices, or for *)
(* UartManager the serial ports.                                           *)
(***************************************************************************)
Manager_process(m, listed, mode, force, t) ==
    LET m0 == [m EXCEPT !.op = "process",
                        !.mode = mode,
                        !.force = force,
                        !.enumerated = FALSE,
                        !.connected_devices = <<>>,
                        !.on_connect_device_calls = <<>>,
                        !.on_disconnect_device_calls = <<>>,
                        !.device_process_calls = <<>>,
                        !.removed_streams = <<>>,
                        !.raised = "none"]
        m1 == IF mode \in {SELF, BOTH}
                 /\ (force \/ t - m.last_process_time >= m.check_interval)
              THEN Only({DisconnectLoop(r.manager, r.ids_to_disconnect) :
                         r \in {Only({ConnectLoop(
                                          [got.manager EXCEPT
                                             !.connected_devices =
                                                 got.connected_devices],
                                          m.devices, got.connected_devices) :
                                      got \in {self_get_connected_devices(
                                                  [m0 EXCEPT
                                                     !.last_process_time = t,
                                                     !.enumerated = TRUE],
                                                  listed)}})}})
              ELSE m0
    IN IF mode \in {BOTH, SUBS} /\ m1.raised = "none"
       THEN SubsLoop(m1, m1.devices, t)
       ELSE m1

\* UartManager.process(mode, force) with the serial driver listing comports,
\* raising on the ports of failing and opening ports or not
UartManager_process(m, comports, failing, open_ok, mode, force, t) ==
    Manager_process([m EXCEPT !.failing = failing, !.open_ok = open_ok],
                    comports, mode, force, t)

(***************************************************************************)
(* Spec: one parser/generator of the Cmd protocol on an open, unthreaded   *)
(* UartStream, an application thread that calls process, send_packet,      *)
(* send_and_wait and wait_packet, a device that sends bytes, and a clock.  *)
(***************************************************************************)
Init ==
    /\ \E timeout \in {NoTimeout, TimeoutValue} :
          pg = StreamParserGenerator("Cmd", timeout, timeout)
    /\ stream = UartStream
    /\ now = 1
    /\ app = AppInit
    /\ hist = HistInit
    /\ codec = CodecIdle
    /\ manager = Manager

Tick ==
    /\ now < MaxTime
    /\ now' = now + 1
    /\ hist' = HistInit
    /\ UNCHANGED <<manager, pg, stream, app, codec>>

\* what a process() call read and did, for the properties
ProcessHist(p, st, in_waiting, t) ==
    IF st.is_open /\ in_waiting = ReadError
    THEN [HistInit EXCEPT !.op = "read_failed", !.t = t]
    ELSE
    Only({[HistInit EXCEPT
             !.op = "process", !.t = t,
             !.status_drained = drained.parser_status,
             !.frame_drained = drained.frame_started_at,
             !.fired = Len(CheckIncoming(drained, t).on_incoming_packet_timeout_calls)
                       > Len(p.on_incoming_packet_timeout_calls)] :
          drained \in {DrainQueue([(IF st.is_open /\ Len(in_waiting) # 0
                                    THEN Stream_on_rx_data(st, p, in_waiting)
                                    ELSE p)
                                   EXCEPT !.raised = "none"], t)}})

\* the port can hold in_waiting when process() reads it: bytes wait only in
\* an open port
CanRead(in_waiting) ==
    in_waiting \notin {<<>>, ReadError}
    => stream.port_is_open /\ stream.reads < MaxReads

\* the application calls stream.process()
StreamProcess(in_waiting) ==
    /\ app.pc = "idle"
    /\ CanRead(in_waiting)
    /\ \E r \in {UartStream_process(stream, pg, in_waiting, now)} :
          /\ pg' = r.pg
          /\ stream' = r.stream
          /\ app' = IF r.pg.suspended THEN [app EXCEPT !.pc = "observer"] ELSE app
    /\ hist' = ProcessHist(pg, stream, in_waiting, now)
    /\ UNCHANGED <<manager, now, codec>>

\* the response a sent packet's definition requires, None without one
ResponseRequired(p, name) ==
    Only({IF made.err = "none" /\ made.definition.has_response_required
          THEN made.definition.response_required ELSE None :
          made \in {get_packet_from_name_and_args(p.protocol_class, name)}})

\* the application calls send_packet(name); the write succeeds or fails
SendPacket(name, write_ok) ==
    /\ app.pc = "idle"
    /\ app.calls < MaxCalls
    /\ write_ok => stream.port_is_open
    /\ \E r \in {send_packet(pg, name, write_ok, now)} :
          /\ pg' = r.pg
          /\ stream' = IF r.written # <<>>
                       THEN [stream EXCEPT !.tx = Append(@, r.written)] ELSE stream
          /\ app' = [app EXCEPT !.call = "send_packet", !.sent = name,
                                !.packet_name = None,
                                !.response_required = ResponseRequired(pg, name),
                                !.entry_pending = pg.response_pending,
                                !.ret = r.result, !.calls = @ + 1]
    /\ hist' = HistInit
    /\ UNCHANGED <<manager, now, codec>>

(***************************************************************************)
(* send_and_wait(name): send_packet, then wait_packet() unless the result  *)
(* is False.                                                               *)
(***************************************************************************)
SendAndWait(name, write_ok) ==
    /\ app.pc = "idle"
    /\ app.calls < MaxCalls
    /\ write_ok => stream.port_is_open
    /\ \E r \in {send_packet(pg, name, write_ok, now)} :
          /\ pg' = r.pg
          /\ stream' = IF r.written # <<>>
                       THEN [stream EXCEPT !.tx = Append(@, r.written)] ELSE stream
          /\ app' = [app EXCEPT !.call = "send_and_wait", !.sent = name,
                                !.packet_name = None,
                                !.response_required = ResponseRequired(pg, name),
                                !.entry_pending = pg.response_pending,
                                !.pc = IF r.result.kind = "int" THEN "loop" ELSE "idle",
                                !.ret = IF r.result.kind = "int"
                                        THEN Ret("none", NoPacket) ELSE r.result,
                                !.calls = @ + 1]
    /\ hist' = HistInit
    /\ UNCHANGED <<manager, now, codec>>

\* the application calls wait_packet(name) or wait_packet()
WaitPacket(name) ==
    /\ app.pc = "idle"
    /\ app.calls < MaxCalls
    /\ app' = [app EXCEPT !.call = "wait_packet", !.sent = None,
                          !.packet_name = name, !.response_required = None,
                          !.entry_pending = pg.response_pending,
                          !.pc = "loop", !.ret = Ret("none", NoPacket),
                          !.calls = @ + 1]
    /\ hist' = HistInit
    /\ UNCHANGED <<manager, pg, stream, now, codec>>

(***************************************************************************)
(* wait_packet, lines 377-380: while something is pending, let an          *)
(* unthreaded stream process. An exception of process() leaves wait_packet.*)
(***************************************************************************)
WaitLoop(in_waiting) ==
    /\ app.pc = "loop"
    /\ pg.response_pending # None
    /\ ~stream.use_threading
    /\ CanRead(in_waiting)
    /\ \E r \in {UartStream_process(stream, pg, in_waiting, now)} :
          /\ pg' = r.pg
          /\ stream' = r.stream
          /\ app' = IF r.pg.raised # "none"
                    THEN [app EXCEPT !.pc = "idle", !.ret = Ret("raised", NoPacket)]
                    ELSE app
    /\ hist' = ProcessHist(pg, stream, in_waiting, now)
    /\ UNCHANGED <<manager, now, codec>>

(***************************************************************************)
(* wait_packet, lines 383-401 up to the wait on the event: nothing is      *)
(* pending any more; a name given becomes pending and arms the timer; with *)
(* something pending the caller waits on the event, else it returns.       *)
(***************************************************************************)
WaitEnter ==
    /\ app.pc = "loop"
    /\ pg.response_pending = None
    /\ LET p1 == IF app.packet_name # None
                 THEN [pg EXCEPT !.response_pending = app.packet_name,
                                 !.response_packet_t0 = now]
                 ELSE pg
       IN /\ pg' = p1
          /\ app' = IF p1.response_pending # None
                    THEN [app EXCEPT !.pc = "gate"]
                    ELSE [app EXCEPT !.pc = "idle", !.ret = WaitResult(p1)]
    /\ hist' = HistInit
    /\ UNCHANGED <<manager, stream, now, codec>>

\* wait_packet, lines 397-401: the event is set; clear it and return
WaitGate ==
    /\ app.pc = "gate"
    /\ pg.wait_packet_event
    /\ pg' = [pg EXCEPT !.wait_packet_event = FALSE]
    /\ app' = [app EXCEPT !.pc = "idle", !.ret = WaitResult(pg)]
    /\ hist' = HistInit
    /\ UNCHANGED <<manager, stream, now, codec>>

\* the steps wait_packet can take
WaitNext == (\E in_waiting \in PortData : WaitLoop(in_waiting)) \/ WaitEnter \/ WaitGate

Next ==
    \/ Tick
    \/ \E in_waiting \in PortData : StreamProcess(in_waiting)
    \/ \E name \in SendNames, write_ok \in BOOLEAN : SendPacket(name, write_ok)
    \/ \E name \in SendNames, write_ok \in BOOLEAN : SendAndWait(name, write_ok)
    \/ \E name \in WaitNames : WaitPacket(name)
    \/ \E in_waiting \in PortData : WaitLoop(in_waiting)
    \/ WaitEnter
    \/ WaitGate

Spec == Init /\ [][Next]_vars

(***************************************************************************)
(* Properties of the rendezvous run (Spec).                                *)
(***************************************************************************)

\* C1: a send_and_wait() of a packet whose definition requires a response
\* returns, when it returns a packet, the packet named by response_required,
\* also when other packets were parsed in the same process() call.
C1_ReturnsRequiredResponse ==
    (/\ app.call = "send_and_wait"
     /\ app.pc = "idle"
     /\ app.response_required # None
     /\ app.ret.kind = "packet")
    => app.ret.packet.name = app.response_required

\* C2: a wait_packet(name) entered with nothing pending on an unthreaded
\* stream can always take a step: until it returns it is running the
\* stream's process step, never parked where nothing can wake it.
C2_WaitCanStep ==
    (/\ app.call = "wait_packet"
     /\ app.packet_name # None
     /\ app.entry_pending = None
     /\ ~stream.use_threading
     /\ app.pc # "idle")
    => ENABLED WaitNext

\* C36: a wait_packet(name) call that returns a packet returns one named
\* name, received during the call (so a response was pending when the call
\* began: the stream is unthreaded and bytes are parsed only in the busy
\* loop), and no name is left pending when it returns
C36_ReleaseBelongsToWait ==
    (/\ app.call = "wait_packet"
     /\ app.packet_name # None
     /\ app.pc = "idle"
     /\ app.ret.kind = "packet")
    => /\ app.ret.packet.name = app.packet_name
       /\ app.entry_pending # None
       /\ pg.response_pending = None

\* C37: with response_packet_timeout None, whatever send_packet or
\* wait_packet has armed, no process() call fails with a TypeError and the
\* waiting-timeout observer is never called
C37_NoTimeoutNeverFails ==
    pg.response_packet_timeout = NoTimeout
    => /\ pg.raised # "TypeError"
       /\ pg.on_response_packet_timeout_calls = <<>>

\* C7 (as the code has it): with incoming_packet_timeout t configured, a
\* process() call that leaves a frame started at s incomplete after draining
\* fires on_incoming_packet_timeout exactly when its clock reading is
\* strictly later than s + t.
C7_DeadlineStrictlyAfter ==
    (/\ hist.op = "process"
     /\ hist.status_drained # IDLE
     /\ pg.incoming_packet_timeout # NoTimeout)
    => (hist.fired <=> hist.t > hist.frame_drained + pg.incoming_packet_timeout)

\* C7 witness: a process() call one tick past the deadline fired the observer
C7_FiredPastDeadline ==
    /\ hist.op = "process"
    /\ hist.status_drained # IDLE
    /\ pg.incoming_packet_timeout # NoTimeout
    /\ hist.fired
    /\ hist.t = hist.frame_drained + pg.incoming_packet_timeout + 1
    /\ pg.parser_status = IDLE
    /\ pg.on_incoming_packet_timeout_calls = <<(<<SYNC>>)>>

\* C7 as stated: the observer fires in the first process() call whose clock
\* reading is at or after s + t, the reading equal to s + t included.
C7_DeadlineAtOrAfter ==
    (/\ hist.op = "process"
     /\ hist.status_drained # IDLE
     /\ pg.incoming_packet_timeout # NoTimeout)
    => (hist.fired <=> hist.t >= hist.frame_drained + pg.incoming_packet_timeout)

\* C10: after a send_packet()/send_and_wait() whose write failed (the call
\* returned False) with nothing pending before, no response is pending, no
\* response deadline is armed and no response timeout has fired.
C10_FailedWriteArmsNothing ==
    (/\ app.call \in {"send_packet", "send_and_wait"}
     /\ app.ret.kind = "False"
     /\ app.entry_pending = None)
    => /\ pg.response_pending = None
       /\ pg.response_packet_t0 = 0
       /\ pg.on_response_packet_timeout_calls = <<>>

\* C11: a wait_packet(name) call entered while a response is pending never
\* reaches the wait on the event and returns False (Busy) when it returns.
C11_BusyWaitFails ==
    (/\ app.call = "wait_packet"
     /\ app.packet_name # None
     /\ app.entry_pending # None)
    => /\ app.pc # "gate"
       /\ app.pc = "idle" => app.ret.kind = "False"

\* C12: a wait_packet() call without a name entered with nothing pending
\* returns None, whatever was received or waited for before.
C12_NothingPendingReturnsNone ==
    (/\ app.call = "wait_packet"
     /\ app.packet_name = None
     /\ app.entry_pending = None
     /\ app.pc = "idle")
    => app.ret.kind = "None"

\* C14: the response timeout fires once per armed wait. In every step the
\* observer on_response_packet_timeout is invoked at most once, and exactly
\* when the step is a process() call whose clock reading is later than the
\* armed deadline and which parsed no packet of the pending name; it is given
\* the pending name, and the call leaves nothing pending, the deadline
\* disarmed (so no later process() call fires it again until a wait is
\* armed), the gate marked timed out and released; a wait that returns with
\* the gate marked timed out returns None.
C14_ResponseTimeoutOnce ==
    [][LET before == pg.on_response_packet_timeout_calls
           after == pg'.on_response_packet_timeout_calls
           matched == \E i \in (Len(pg.on_rx_packet_calls) + 1)..Len(pg'.on_rx_packet_calls) :
                          pg'.on_rx_packet_calls[i].name = pg.response_pending
           due == /\ hist'.op = "process"
                  /\ pg'.raised = "none"
                  /\ pg.response_packet_t0 # 0
                  /\ pg.response_packet_timeout # NoTimeout
                  /\ hist'.t > pg.response_packet_t0 + pg.response_packet_timeout
                  /\ ~matched
       IN /\ Len(after) \in {Len(before), Len(before) + 1}
          /\ Len(after) = Len(before) + 1 <=> due
          /\ due => /\ pg.response_pending # None
                    /\ after = Append(before, pg.response_pending)
                    /\ pg'.response_pending = None
                    /\ pg'.response_packet_t0 = 0
                    /\ pg'.wait_timed_out
                    /\ pg'.wait_packet_event
          /\ (/\ app.pc \in {"loop", "gate"}
              /\ app'.pc = "idle"
              /\ app'.ret.kind # "raised"
              /\ pg.wait_timed_out) => app'.ret.kind = "None"]_vars

\* C14 witness: a send_and_wait("ping") returned None after its deadline
\* passed with no pong: the observer was given "pong" once
C14_WaiterTimedOut ==
    /\ app.call = "send_and_wait"
    /\ app.sent = "ping"
    /\ app.pc = "idle"
    /\ app.ret.kind = "None"
    /\ pg.on_response_packet_timeout_calls = <<"pong">>
    /\ pg.on_rx_packet_calls = <<>>
    /\ pg.response_pending = None
    /\ pg.response_packet_t0 = 0
    /\ pg.wait_timed_out
    /\ now > 1 + pg.response_packet_timeout

(***************************************************************************)
(* SpecClose: the rendezvous run on a stream that the application closes   *)
(* or whose device is removed (the port's in_waiting raises).              *)
(***************************************************************************)
\* what process() finds in the port: nothing, a pong frame, or an error
ClosePortData == {<<>>, <<SYNC, 2>>, ReadError}

\* the application calls stream.close()
Close ==
    /\ app.pc = "idle"
    /\ stream.port_open
    /\ stream' = UartStream_close(stream)
    /\ hist' = [HistInit EXCEPT !.op = "close"]
    /\ UNCHANGED <<manager, pg, now, app, codec>>

NextClose ==
    \/ Tick
    \/ Close
    \/ \E in_waiting \in ClosePortData : StreamProcess(in_waiting)
    \/ \E write_ok \in BOOLEAN : SendPacket("ping", write_ok)
    \/ \E name \in WaitNames : WaitPacket(name)
    \/ \E in_waiting \in ClosePortData : WaitLoop(in_waiting)
    \/ WaitEnter
    \/ WaitGate

SpecClose == Init /\ [][NextClose]_vars

\* C13: once the port is closed (by close(), or by the teardown after a read
\* failure) and the stream's process step has run, no response is pending:
\* the wait was released.
C13_CloseReleasesWait ==
    (/\ ~stream.port_open
     /\ hist.op \in {"process", "read_failed"})
    => pg.response_pending = None

(***************************************************************************)
(* SpecObserver: the rendezvous run with an on_rx_packet observer that     *)
(* calls send_and_wait("ping") when it is given an evt packet. The         *)
(* application thread is in stream.process() (app.pc = "observer") while   *)
(* invocations of the observer have not returned.                          *)
(***************************************************************************)
\* what process() finds in the port: nothing, an evt frame, an evt frame
\* with a pong or another evt frame behind it
ObserverPortData == {<<>>, <<SYNC, 3>>, <<SYNC, 3, SYNC, 2>>, <<SYNC, 3, SYNC, 3>>}

InitObserver ==
    /\ pg = [StreamParserGenerator("Cmd", TimeoutValue, TimeoutValue)
             EXCEPT !.observer = "send_and_wait"]
    /\ stream = UartStream
    /\ now = 1
    /\ app = AppInit
    /\ hist = HistInit
    /\ codec = CodecIdle
    /\ manager = Manager

\* the innermost on_rx_packet invocation that has not returned
TopFrame(p) == p.observer_stack[Len(p.observer_stack)]

\* p with the innermost observer at pc
AtFrame(p, pc) ==
    [p EXCEPT !.observer_stack[Len(p.observer_stack)].pc = pc]

\* the observer calls send_and_wait("ping"): send_packet, then wait_packet()
\* unless the result is False
ObserverSend(write_ok) ==
    /\ pg.observer_stack # <<>>
    /\ TopFrame(pg).pc = "entered"
    /\ write_ok => stream.port_is_open
    /\ \E r \in {send_packet(pg, "ping", write_ok, now)} :
          /\ pg' = AtFrame(r.pg, IF r.result.kind = "int" THEN "waiting"
                                  ELSE "returning")
          /\ stream' = IF r.written # <<>>
                       THEN [stream EXCEPT !.tx = Append(@, r.written)] ELSE stream
    /\ hist' = HistInit
    /\ UNCHANGED <<manager, now, app, codec>>

\* wait_packet, lines 377-380, called by the observer: the stream's process
\* step runs inside the on_rx_packet invocation
ObserverWaitLoop(in_waiting) ==
    /\ pg.observer_stack # <<>>
    /\ TopFrame(pg).pc = "waiting"
    /\ pg.response_pending # None
    /\ ~stream.use_threading
    /\ CanRead(in_waiting)
    /\ \E r \in {UartStream_process(stream, pg, in_waiting, now)} :
          /\ pg' = r.pg
          /\ stream' = r.stream
    /\ hist' = [HistInit EXCEPT !.op = "process", !.t = now]
    /\ UNCHANGED <<manager, now, app, codec>>

(***************************************************************************)
(* The observer returns (its send failed, or nothing is pending any more   *)
(* and wait_packet() returns): parse_byte goes on at line 298, and the     *)
(* process() call that made the invocation drains the rest of the queue    *)
(* and checks the deadlines.                                               *)
(***************************************************************************)
ObserverReturn ==
    /\ pg.observer_stack # <<>>
    /\ \/ TopFrame(pg).pc \in {"returning", "sent"}
       \/ TopFrame(pg).pc = "waiting" /\ pg.response_pending = None
    /\ \E r \in {process(DeliverEnd([pg EXCEPT !.observer_stack =
                                           Take(@, Len(@) - 1)],
                                     TopFrame(pg).release_wait_lock), now)} :
          /\ pg' = r
          /\ app' = IF r.observer_stack = <<>> THEN [app EXCEPT !.pc = "idle"] ELSE app
    /\ hist' = [HistInit EXCEPT !.op = "process", !.t = now]
    /\ UNCHANGED <<manager, stream, now, codec>>

NextObserver ==
    \/ Tick
    \/ \E in_waiting \in ObserverPortData : StreamProcess(in_waiting)
    \/ \E write_ok \in BOOLEAN : ObserverSend(write_ok)
    \/ \E in_waiting \in ObserverPortData : ObserverWaitLoop(in_waiting)
    \/ ObserverReturn

SpecObserver == InitObserver /\ [][NextObserver]_vars

\* C16: on_rx_packet is never invoked while an earlier invocation of it on
\* the same parser/generator has not returned.
C16_ObserverNotReentered == ~pg.reentered

(***************************************************************************)
(* SpecParse: a fresh parser/generator of one of the protocols, and an     *)
(* application that feeds it bytes through parse(), as an integer, a bytes *)
(* object or a list of integers.                                           *)
(***************************************************************************)
\* the bytes fed to each protocol: text with CR, LF and a backspace; small
\* type/length/value bytes; sync, packet ids and junk
Alphabet(cls) ==
    CASE cls = "Text" -> {10, 13, 8, 65}
      [] cls = "Cmd"  -> {SYNC, 0, 2, 4}
      [] OTHER        -> {0, 1, 2}

Chunks(cls) ==
    UNION {[1..n -> Alphabet(cls)] : n \in 1..MaxChunk}

ParseInputs(cls) ==
    {IntVal(b) : b \in Alphabet(cls)}
    \cup {BytesVal(c) : c \in Chunks(cls)}
    \cup {ListVal(c) : c \in Chunks(cls)}

\* the parser before the last byte a parse() call parsed, and that byte
RECURSIVE LastStep(_, _, _)
LastStep(p, data, t) ==
    Only({IF Len(data) = 1 \/ q.raised # "none"
          THEN [pre |-> p, byte |-> Head(data)]
          ELSE LastStep(q, Tail(data), t) :
          q \in {parse_byte(p, Head(data), t)}})

InitParse ==
    /\ \E cls \in Protocols : pg = StreamParserGenerator(cls, NoTimeout, NoTimeout)
    /\ stream = UartStream
    /\ now = 1
    /\ app = AppInit
    /\ hist = HistInit
    /\ codec = CodecIdle
    /\ manager = Manager

\* the application calls parse(input_data)
Parse(input_data) ==
    /\ Len(hist.fed) + Len(input_data.v) <= MaxFeed
    /\ pg' = parse(pg, input_data, now)
    /\ \E last \in {LastStep([pg EXCEPT !.raised = "none"], input_data.v, now)} :
          hist' = [HistInit EXCEPT !.op = "parse",
                                   !.fed = hist.fed \o input_data.v,
                                   !.byte = last.byte,
                                   !.pre_buffer = last.pre.rx_buffer,
                                   !.pre_status = last.pre.parser_status]
    /\ UNCHANGED <<manager, stream, now, app, codec>>

NextParse ==
    \E input_data \in ParseInputs(pg.protocol_class) : Parse(input_data)

SpecParse == InitParse /\ [][NextParse]_vars

(***************************************************************************)
(* Properties of the framing run (SpecParse).                              *)
(***************************************************************************)
\* what C3 compares: the on_rx_packet invocations and the parser state
Observed(p) == <<p.on_rx_packet_calls, p.rx_buffer, p.parser_status>>

\* C3: however the bytes fed so far were split over parse() calls, the
\* on_rx_packet invocations and the parser state are those of one parse()
\* call with all the bytes on a fresh parser/generator.
C3_ChunkingIndependent ==
    hist.op = "parse"
    => Observed(pg) =
       Observed(parse(StreamParserGenerator(pg.protocol_class, NoTimeout, NoTimeout),
                      BytesVal(hist.fed), now))

\* C4: under the TLV, LTV and text protocols no parse() call lets an
\* exception out to its caller.
C4_ParseReturnsNormally ==
    pg.protocol_class \in {"TLV", "LTV", "Text"} => pg.raised = "none"

\* C5: a backspace byte parsed with n > 0 bytes in rx_buffer leaves the
\* first n - 1 of them; parsed with n = 0 it leaves the buffer empty and
\* parser_status IDLE.
C5_BackspaceErasesOne ==
    (/\ hist.op = "parse"
     /\ InList(hist.byte, backspace_bytes(pg.protocol_class)))
    => IF Len(hist.pre_buffer) > 0
       THEN pg.rx_buffer = Take(hist.pre_buffer, Len(hist.pre_buffer) - 1)
       ELSE pg.rx_buffer = <<>> /\ pg.parser_status = IDLE

\* C5 witness: a backspace parsed with two bytes buffered left the first
C5_BackspaceAfterTwo ==
    /\ hist.op = "parse"
    /\ InList(hist.byte, backspace_bytes(pg.protocol_class))
    /\ Len(hist.pre_buffer) = 2
    /\ pg.rx_buffer = <<hist.pre_buffer[1]>>
    /\ pg.parser_status = IN_PROGRESS

\* C6: no buffer handed to get_packet_from_buffer ends with a trim byte.
C6_HandedBufferTrimmed ==
    \A i \in 1..Len(pg.handed) :
        pg.handed[i] = <<>>
        \/ ~InList(pg.handed[i][Len(pg.handed[i])], trim_bytes(pg.protocol_class))

\* the start test answered IDLE on the last byte parsed
LastAnswerIdle ==
    pg.start_answers # <<>> /\ pg.start_answers[Len(pg.start_answers)] = IDLE

\* C8 (as the code has it): as long as the start test has answered only
\* IDLE or STARTING, on_rx_packet has not been invoked, parser_status is
\* IDLE or STARTING, and it is IDLE after a byte on which the start test
\* answered IDLE.
C8_JunkLeavesIdleOrStarting ==
    (hist.op = "parse" /\ ~pg.start_accepted)
    => /\ pg.on_rx_packet_calls = <<>>
       /\ pg.parser_status \in {IDLE, STARTING}
       /\ LastAnswerIdle => pg.parser_status = IDLE

\* C8 witness: a sync byte then junk: STARTING, then IDLE, nothing delivered
C8_SyncThenJunk ==
    /\ hist.op = "parse"
    /\ ~pg.start_accepted
    /\ Len(hist.fed) = 2
    /\ hist.fed[1] = SYNC
    /\ hist.pre_status = STARTING
    /\ LastAnswerIdle
    /\ pg.parser_status = IDLE
    /\ pg.on_rx_packet_calls = <<>>

\* C8 as stated: as long as the start test has not accepted, on_rx_packet
\* has not been invoked and parser_status is IDLE after every byte.
C8_JunkLeavesIdle ==
    (hist.op = "parse" /\ ~pg.start_accepted)
    => /\ pg.on_rx_packet_calls = <<>>
       /\ pg.parser_status = IDLE

(***************************************************************************)
(* LTV and TLV framing (SpecParse). The byte stream fed so far is cut into *)
(* frames by the completion rule of each protocol, and the packets         *)
(* delivered are compared with the frames.                                 *)
(***************************************************************************)
\* LTV: a frame ends when len(buffer) == buffer[0] + 1
RECURSIVE LTVFrames(_)
LTVFrames(data) ==
    IF data = <<>> \/ Len(data) < data[1] + 1
    THEN [frames |-> <<>>, rest |-> data]
    ELSE Only({[frames |-> <<Take(data, data[1] + 1)>> \o tail.frames,
                rest |-> tail.rest] :
               tail \in {LTVFrames(Drop(data, data[1] + 1))}})

\* TLV: a frame ends when len(buffer) > 1 and len(buffer) == buffer[1] + 2
RECURSIVE TLVFrames(_)
TLVFrames(data) ==
    IF Len(data) < 2 \/ Len(data) < data[2] + 2
    THEN [frames |-> <<>>, rest |-> data]
    ELSE Only({[frames |-> <<Take(data, data[2] + 2)>> \o tail.frames,
                rest |-> tail.rest] :
               tail \in {TLVFrames(Drop(data, data[2] + 2))}})

\* a frame that holds the two header bytes
HasHeader(frame) == Len(frame) >= 2

\* C17 (as the code has it): the LTV length byte counts the type byte and
\* the value bytes. A frame completes exactly when as many bytes as the
\* length byte says have followed it; every packet delivered has
\* len(value) = length - 1, and its length, type and value are the frame's.
\* A frame of the single byte 0 is reported through on_rx_error.
C17_LTVLengthCountsTypeAndValue ==
    (pg.protocol_class = "LTV" /\ hist.op = "parse")
    => LET ref == LTVFrames(hist.fed)
           good == SelectSeq(ref.frames, HasHeader)
           calls == pg.on_rx_packet_calls
       IN /\ Len(calls) = Len(good)
          /\ \A i \in 1..Len(calls) :
                /\ calls[i].buffer = good[i]
                /\ calls[i].payload["length"] = IntVal(good[i][1])
                /\ calls[i].payload["type"] = IntVal(good[i][2])
                /\ calls[i].payload["value"] = BytesVal(Drop(good[i], 2))
                /\ Len(calls[i].payload["value"].v)
                   = calls[i].payload["length"].v[1] - 1
          /\ Len(pg.on_rx_error_calls) = Len(ref.frames) - Len(good)
          /\ pg.rx_buffer = ref.rest

\* C17 witness: an LTV packet with length 2 and one value byte was delivered
C17_LengthTwoOneValueByte ==
    /\ pg.protocol_class = "LTV"
    /\ hist.op = "parse"
    /\ Len(pg.on_rx_packet_calls) = 1
    /\ pg.on_rx_packet_calls[1].payload["length"] = IntVal(2)
    /\ Len(pg.on_rx_packet_calls[1].payload["value"].v) = 1
    /\ hist.fed = pg.on_rx_packet_calls[1].buffer

\* C17: every packet delivered by the LTV protocol has len(value) = length.
C17_LTVLengthCountsValueOnly ==
    pg.protocol_class = "LTV"
    => \A i \in 1..Len(pg.on_rx_packet_calls) :
          Len(pg.on_rx_packet_calls[i].payload["value"].v)
          = pg.on_rx_packet_calls[i].payload["length"].v[1]

\* an LTV frame shorter than the expected_length of the LTV layout
ShortBuffer(frame) ==
    Len(frame) < calculate_packing_info(LTVArgs).expected_length

\* C26: under LTV every completed frame shorter than expected_length was
\* reported once through on_rx_error with that buffer and gave no
\* on_rx_packet; every other completed frame, before or after it, was
\* delivered as one packet; no exception left parse(); and the parser holds
\* only the bytes after the last completed frame, IDLE when there are none.
C26_ShortBufferReported ==
    (pg.protocol_class = "LTV" /\ hist.op = "parse")
    => LET ref == LTVFrames(hist.fed)
           short == SelectSeq(ref.frames, ShortBuffer)
           long == SelectSeq(ref.frames, LAMBDA frame : ~ShortBuffer(frame))
           calls == pg.on_rx_packet_calls
       IN /\ pg.raised = "none"
          /\ pg.on_rx_error_calls = short
          /\ [i \in 1..Len(calls) |-> calls[i].buffer] = long
          /\ pg.rx_buffer = ref.rest
          /\ ref.rest = <<>> => pg.parser_status = IDLE

\* C26 witness: the lone byte 0 was reported once and the three-byte frame
\* fed after it was delivered as the only packet
C26_ShortFrameThenPacket ==
    /\ pg.protocol_class = "LTV"
    /\ hist.op = "parse"
    /\ pg.on_rx_error_calls = <<(<<0>>)>>
    /\ Len(pg.on_rx_packet_calls) = 1
    /\ Len(pg.on_rx_packet_calls[1].buffer) = 3
    /\ hist.fed = <<0>> \o pg.on_rx_packet_calls[1].buffer
    /\ pg.parser_status = IDLE
    /\ pg.rx_buffer = <<>>

\* C18: when the bytes fed are a concatenation of well-formed TLV frames,
\* one packet was delivered per frame, in order, with the frame's type,
\* length and value (len(value) = length), no error was reported, and the
\* parser is IDLE with an empty buffer.
C18_TLVFraming ==
    (pg.protocol_class = "TLV" /\ hist.op = "parse")
    => LET ref == TLVFrames(hist.fed)
           calls == pg.on_rx_packet_calls
       IN ref.rest = <<>>
          => /\ Len(calls) = Len(ref.frames)
             /\ \A i \in 1..Len(calls) :
                   /\ calls[i].name = "tlv_packet"
                   /\ calls[i].buffer = ref.frames[i]
                   /\ calls[i].payload["type"] = IntVal(ref.frames[i][1])
                   /\ calls[i].payload["length"] = IntVal(ref.frames[i][2])
                   /\ calls[i].payload["value"] = BytesVal(Drop(ref.frames[i], 2))
                   /\ Len(calls[i].payload["value"].v)
                      = calls[i].payload["length"].v[1]
             /\ pg.on_rx_error_calls = <<>>
             /\ pg.raised = "none"
             /\ pg.parser_status = IDLE
             /\ pg.rx_buffer = <<>>

\* C18 witness: a TLV frame without value bytes and one with a value byte,
\* fed and delivered in that order
C18_EmptyThenOneByteValue ==
    /\ pg.protocol_class = "TLV"
    /\ hist.op = "parse"
    /\ Len(pg.on_rx_packet_calls) = 2
    /\ pg.on_rx_packet_calls[1].payload["length"] = IntVal(0)
    /\ pg.on_rx_packet_calls[2].payload["length"] = IntVal(1)
    /\ hist.fed = pg.on_rx_packet_calls[1].buffer \o pg.on_rx_packet_calls[2].buffer
    /\ pg.rx_buffer = <<>>

(***************************************************************************)
(* Text framing (SpecParse): the lines of the byte stream fed so far.      *)
(***************************************************************************)
\* a line's bytes without the one trim byte before the terminator
WithoutCarriageReturn(line) ==
    IF line # <<>> /\ InList(line[Len(line)], trim_bytes("Text"))
    THEN Take(line, Len(line) - 1) ELSE line

\* the terminated lines of data, line holding the bytes of the line begun:
\* a backspace byte erases the byte before it, a terminal byte ends the line
RECURSIVE TextLines(_, _)
TextLines(data, line) ==
    IF data = <<>> THEN <<>>
    ELSE IF InList(Head(data), backspace_bytes("Text"))
    THEN TextLines(Tail(data), Take(line, Len(line) - 1))
    ELSE IF InList(Head(data), terminal_bytes("Text"))
    THEN <<WithoutCarriageReturn(line)>> \o TextLines(Tail(data), <<>>)
    ELSE TextLines(Tail(data), Append(line, Head(data)))

\* C19: every line of the input ended by 0x0A, an empty line and a line
\* erased by backspaces included, has yielded exactly one on_rx_packet, whose
\* text is the line after the backspaces were applied, without the 0x0A and
\* a 0x0D before it.
C19_TextLineFraming ==
    (pg.protocol_class = "Text" /\ hist.op = "parse")
    => LET lines == TextLines(hist.fed, <<>>)
       IN /\ Len(pg.on_rx_packet_calls) = Len(lines)
          /\ \A i \in 1..Len(lines) :
                pg.on_rx_packet_calls[i].payload["text"] = BytesVal(lines[i])

(***************************************************************************)
(* SpecManager: a manager whose application sets the device filter and     *)
(* calls process(); devices come and go between the calls.                 *)
(***************************************************************************)
\* the sequences of distinct device ids _get_connected_devices() may return
Enumerations ==
    {e \in UNION {[1..n -> DeviceIds] : n \in 0..MaxDevices} :
        \A i, j \in 1..Len(e) : i # j => e[i] # e[j]}

\* no filter, a filter that passes nothing, filters that pass one device
Filters == {NoFilter, Filter({})} \cup {Filter({d}) : d \in DeviceIds}

InitManager ==
    /\ pg = StreamParserGenerator("Cmd", NoTimeout, NoTimeout)
    /\ stream = UartStream
    /\ now = 1
    /\ app = AppInit
    /\ hist = HistInit
    /\ codec = CodecIdle
    /\ manager = Manager

\* the application assigns device_filter
SetFilter(device_filter) ==
    /\ manager.device_filter # device_filter
    /\ manager' = [Manager EXCEPT !.device_filter = device_filter,
                                  !.devices = manager.devices,
                                  !.last_process_time = manager.last_process_time]
    /\ UNCHANGED <<pg, stream, now, app, hist, codec>>

\* the application calls process(mode, force)
ManagerProcess(connected_devices, mode, force) ==
    /\ manager' = Manager_process(manager, connected_devices, mode, force, now)
    /\ UNCHANGED <<pg, stream, now, app, hist, codec>>

NextManager ==
    \/ Tick
    \/ \E device_filter \in Filters : SetFilter(device_filter)
    \/ \E connected_devices \in Enumerations, mode \in {SELF, SUBS, BOTH},
          force \in BOOLEAN :
          ManagerProcess(connected_devices, mode, force)

SpecManager == InitManager /\ [][NextManager]_vars

\* the members of a list
Members(list) == {list[i] : i \in 1..Len(list)}

\* how many times device is in list
Count(list, device) == Cardinality({i \in 1..Len(list) : list[i] = device})

\* device passes the manager's filter
Passes(m, device) == ~m.device_filter.defined \/ device \in m.device_filter.passes

\* C20, for every step that is a process() call (the manager's record of
\* its last call changes): the call enumerates exactly when its mode
\* includes the manager itself and it is forced or check_interval has
\* elapsed. An
\* enumeration step hands on_connect_device once each enumerated device that
\* passes the filter and was not known, hands on_disconnect_device once each
\* known device absent from the enumeration, and hands the observers no
\* other device; afterwards the known devices are the devices known before
\* that are still enumerated and the enumerated devices that pass the filter.
\* A call that does not enumerate invokes neither observer and leaves the
\* known devices alone.
C20_PollDiff ==
    [][manager'.op = "process" /\ manager' # manager
       => LET due == manager'.mode \in {SELF, BOTH}
                     /\ (manager'.force \/ now - manager.last_process_time
                                               >= manager.check_interval)
              known == Members(manager.devices)
              found == Members(manager'.connected_devices)
          IN /\ manager'.enumerated <=> due
             /\ due =>
                  /\ \A d \in DeviceIds :
                        /\ Count(manager'.on_connect_device_calls, d)
                           = IF d \in found /\ Passes(manager, d) /\ d \notin known
                             THEN 1 ELSE 0
                        /\ Count(manager'.on_disconnect_device_calls, d)
                           = IF d \in known /\ d \notin found THEN 1 ELSE 0
                  /\ Members(manager'.devices)
                     = (known \cap found) \cup {d \in found : Passes(manager, d)}
                  /\ manager'.last_process_time = now
             /\ ~due =>
                  /\ manager'.on_connect_device_calls = <<>>
                  /\ manager'.on_disconnect_device_calls = <<>>
                  /\ manager'.devices = manager.devices
                  /\ manager'.last_process_time = manager.last_process_time]_vars

\* C20 witness: one enumeration step with a filter set connected a device
\* and disconnected another
C20_ConnectAndDisconnectInOnePoll ==
    /\ manager.op = "process"
    /\ manager.enumerated
    /\ Len(manager.on_connect_device_calls) = 1
    /\ Len(manager.on_disconnect_device_calls) = 1
    /\ manager.on_connect_device_calls # manager.on_disconnect_device_calls
    /\ manager.device_filter.defined
    /\ Members(manager.devices) = Members(manager.connected_devices)

(***************************************************************************)
(* SpecUart: a UartManager with auto_open set by the application, which    *)
(* calls process(mode, force=True); between the calls serial ports appear  *)
(* and go away, and during a call the port of at most one device raises    *)
(* when it is polled.                                                      *)
(***************************************************************************)
InitUart ==
    /\ pg = StreamParserGenerator("Cmd", NoTimeout, NoTimeout)
    /\ stream = UartStream
    /\ now = 1
    /\ app = AppInit
    /\ hist = HistInit
    /\ codec = CodecIdle
    /\ \E auto_open \in {AUTO_OPEN_NONE, AUTO_OPEN_SINGLE, AUTO_OPEN_ALL} :
          manager = [Manager EXCEPT !.class = "UartManager",
                                    !.protocol_class = "Cmd",
                                    !.auto_open = auto_open]

\* what serial.tools.list_ports.comports() may return: the ports present,
\* in the order of their names
PortLists ==
    {e \in Enumerations : \A i, j \in 1..Len(e) : i < j => e[i] < e[j]}

\* the application calls process(mode, force=True)
UartProcess(comports, failing, open_ok, mode) ==
    /\ manager' = UartManager_process(manager, comports, failing, open_ok,
                                      mode, TRUE, now)
    /\ UNCHANGED <<pg, stream, now, app, hist, codec>>

NextUart ==
    \E comports \in PortLists,
       failing \in {{}} \cup {{d} : d \in DeviceIds},
       open_ok \in BOOLEAN, mode \in {SELF, SUBS, BOTH} :
       UartProcess(comports, failing, open_ok, mode)

SpecUart == InitUart /\ [][NextUart]_vars

\* the stream of device was taken out of the table with its port closed
RemovedClosed(m, device) ==
    \E i \in 1..Len(m.removed_streams) :
        /\ m.removed_streams[i].id = device
        /\ ~m.removed_streams[i].stream.port_is_open
        /\ ~m.removed_streams[i].stream.port_open

ReadFailed(device) ==
    /\ device \in DOMAIN manager.streams
    /\ manager.streams[device].is_open
    /\ device \in manager'.failing
    /\ InList(device, manager'.device_process_calls)

\* C40: a departure found by a failing read is reported once, in the call
\* that finds it, and the device and its stream are dropped; the first
\* enumeration after a disconnect reports the device neither connected nor
\* disconnected, whatever ports are listed, and leaves it unknown; a device
\* is reported connected only by an enumeration that lists it
C40_DepartureReportedOnce ==
    [][manager'.op = "process" /\ manager' # manager
       => \A d \in DeviceIds :
             /\ ReadFailed(d)
                => /\ Count(manager'.on_disconnect_device_calls, d) = 1
                   /\ ~InList(d, manager'.devices)
                   /\ d \notin DOMAIN manager'.streams
                   /\ InList(d, manager'.recently_disconnected_devices)
             /\ InList(d, manager'.on_disconnect_device_calls)
                => \/ InList(d, manager.devices)
                   \/ InList(d, manager'.on_connect_device_calls)
             /\ (InList(d, manager.recently_disconnected_devices)
                 /\ manager'.enumerated)
                => /\ ~InList(d, manager'.connected_devices)
                   /\ ~InList(d, manager'.on_connect_device_calls)
                   /\ ~InList(d, manager'.on_disconnect_device_calls)
                   /\ ~InList(d, manager'.devices)
                   /\ ~InList(d, manager'.recently_disconnected_devices)
             /\ InList(d, manager'.on_connect_device_calls)
                => /\ InList(d, manager'.connected_devices)
                   /\ Count(manager'.on_connect_device_calls, d) = 1]_vars

\* a process() call has enumerated the ports, found the port of a device
\* listed and then found its read failing: the disconnect is reported, and
\* the next enumeration will leave the port out
C40_ReadFailedWhileListed ==
    /\ manager.op = "process"
    /\ manager.enumerated
    /\ \E d \in manager.failing :
          /\ InList(d, manager.connected_devices)
          /\ ~InList(d, manager.on_connect_device_calls)
          /\ InList(d, manager.on_disconnect_device_calls)
          /\ InList(d, manager.recently_disconnected_devices)
          /\ ~InList(d, manager.devices)

(***************************************************************************)
(* SpecReply: the rendezvous run with an on_rx_packet observer that, given *)
(* a pong packet, calls send_packet("ping") or parses an evt frame with    *)
(* parse() before it returns. The application sends ping and calls         *)
(* stream.process(); the port delivers a pong frame, a frame without a     *)
(* definition (id 4), or both.                                             *)
(***************************************************************************)
ReplyPortData == {<<>>, <<SYNC, 2>>, <<SYNC, 4>>, <<SYNC, 4, SYNC, 2>>}

InitReply ==
    /\ \E observer \in {"send_packet", "parse"}, timeout \in {NoTimeout, TimeoutValue} :
          pg = [StreamParserGenerator("Cmd", timeout, timeout)
                EXCEPT !.observer = observer]
    /\ stream = UartStream
    /\ now = 1
    /\ app = AppInit
    /\ hist = HistInit
    /\ codec = CodecIdle
    /\ manager = Manager

\* the observer calls send_packet("ping") and returns
ObserverSendPacket(write_ok) ==
    /\ pg.observer = "send_packet"
    /\ pg.observer_stack # <<>>
    /\ TopFrame(pg).pc = "entered"
    /\ write_ok => stream.port_is_open
    /\ \E r \in {send_packet(pg, "ping", write_ok, now)} :
          /\ pg' = AtFrame(r.pg, IF r.result.kind = "int" THEN "sent"
                                  ELSE "returning")
          /\ stream' = IF r.written # <<>>
                       THEN [stream EXCEPT !.tx = Append(@, r.written)] ELSE stream
    /\ hist' = HistInit
    /\ UNCHANGED <<manager, now, app, codec>>

\* the observer calls parse() with the two bytes of an evt frame and returns
ObserverParse ==
    /\ pg.observer = "parse"
    /\ pg.observer_stack # <<>>
    /\ TopFrame(pg).pc = "entered"
    /\ pg' = AtFrame(parse(pg, BytesVal(<<SYNC, 3>>), now), "returning")
    /\ hist' = [HistInit EXCEPT !.op = "parse", !.fed = <<SYNC, 3>>]
    /\ UNCHANGED <<manager, stream, now, app, codec>>

NextReply ==
    \/ Tick
    \/ \E write_ok \in BOOLEAN : SendPacket("ping", write_ok)
    \/ \E in_waiting \in ReplyPortData : StreamProcess(in_waiting)
    \/ \E write_ok \in BOOLEAN : ObserverSendPacket(write_ok)
    \/ ObserverParse
    \/ ObserverReturn

SpecReply == InitReply /\ [][NextReply]_vars

\* on_rx_packet was invoked in this step and has not returned
ObserverEntered ==
    /\ Len(pg'.observer_stack) > Len(pg.observer_stack)
    /\ TopFrame(pg').pc = "entered"

\* C28: when on_rx_packet is invoked for a packet that matches the pending
\* name, response_pending is None and the response deadline is disarmed
\* already; and when the observer has sent ping (response_required pong) with
\* a successful write, pong is pending and its deadline is armed at the time
\* of that send after the observer has returned.
C28_NewRendezvousSurvives ==
    [][/\ ObserverEntered /\ TopFrame(pg').release_wait_lock
          => pg'.response_pending = None /\ pg'.response_packet_t0 = 0
       /\ (/\ pg.observer_stack # <<>>
           /\ TopFrame(pg).pc = "sent"
           /\ TopFrame(pg).release_wait_lock
           /\ pg'.observer_stack = <<>>)
          => /\ pg'.response_pending = "pong"
             /\ pg'.response_packet_t0 = pg.response_packet_t0
             /\ pg'.response_packet_t0 # 0]_vars

\* the framing state after reset()
FramingReset(p) ==
    p.parser_status = IDLE /\ p.rx_buffer = <<>> /\ p.incoming_packet_t0 = 0

\* C29: at every invocation of on_rx_packet the framing state is reset
\* (IDLE, empty rx_buffer, incoming deadline disarmed); it is reset when the
\* parser has handled a completed frame that it reported through
\* on_rx_error; and the bytes of an evt frame parsed from inside the packet
\* observer are a frame of their own, delivered as the next packet, after
\* which the framing state is reset again.
C29_FramingResetBeforeObserver ==
    [][/\ ObserverEntered => FramingReset(pg')
       /\ Len(pg'.on_rx_error_calls) > Len(pg.on_rx_error_calls)
          => FramingReset(pg')
       /\ (/\ pg.observer_stack # <<>>
           /\ TopFrame(pg).pc = "entered"
           /\ hist'.op = "parse")
          => /\ Len(pg'.on_rx_packet_calls) = Len(pg.on_rx_packet_calls) + 1
             /\ pg'.on_rx_packet_calls[Len(pg'.on_rx_packet_calls)].name = "evt"
             /\ pg'.on_rx_packet_calls[Len(pg'.on_rx_packet_calls)].buffer = hist'.fed
             /\ FramingReset(pg')]_vars

\* C29 witness: a frame without a definition was reported through
\* on_rx_error, the pong frame behind it was handed to the observer, and the
\* observer, which has not returned, has parsed an evt frame
C29_ErrorThenReentrantParse ==
    /\ pg.observer = "parse"
    /\ pg.observer_stack # <<>>
    /\ TopFrame(pg).pc = "returning"
    /\ pg.on_rx_error_calls = <<(<<SYNC, 4>>)>>
    /\ Len(pg.on_rx_packet_calls) = 2
    /\ pg.on_rx_packet_calls[1].name = "pong"
    /\ pg.on_rx_packet_calls[2].name = "evt"
    /\ pg.on_rx_packet_calls[2].buffer = <<SYNC, 3>>

\* C35: between operations of the parser/generator (no call and no observer
\* in progress) the waiting deadline is armed if and only if a response name
\* is pending, and the waiting-timeout observer has never been called with
\* no pending name
C35_DeadlineArmedIffPending ==
    /\ (app.pc = "idle" /\ pg.observer_stack = <<>>)
       => (pg.response_packet_t0 # 0 <=> pg.response_pending # None)
    /\ \A i \in DOMAIN pg.on_response_packet_timeout_calls :
          pg.on_response_packet_timeout_calls[i] # None

(***************************************************************************)
(* SpecTrickle: a parser/generator of one of the protocols, with or        *)
(* without an incoming_packet_timeout, whose bytes arrive one parse() call *)
(* at a time while the clock advances and the application calls process(). *)
(***************************************************************************)
MaxTrickle == 3

InitTrickle ==
    /\ \E cls \in Protocols, timeout \in {NoTimeout, TimeoutValue} :
          pg = StreamParserGenerator(cls, timeout, NoTimeout)
    /\ stream = UartStream
    /\ now = 1
    /\ app = AppInit
    /\ hist = HistInit
    /\ codec = CodecIdle
    /\ manager = Manager

\* the application calls parse(input_byte)
Trickle(input_byte) ==
    /\ Len(hist.fed) < MaxTrickle
    /\ pg' = parse(pg, IntVal(input_byte), now)
    /\ hist' = [HistInit EXCEPT !.op = "parse", !.t = now,
                                !.fed = Append(hist.fed, input_byte)]
    /\ UNCHANGED <<manager, stream, now, app, codec>>

\* the application calls process() with an empty receive queue
ProcessDeadlines ==
    /\ hist.op # "process"
    /\ pg' = process(pg, now)
    /\ hist' = [ProcessHist(pg, stream, <<>>, now) EXCEPT !.fed = hist.fed]
    /\ UNCHANGED <<manager, stream, now, app, codec>>

\* the clock advances between the calls
TrickleTick ==
    /\ now < MaxTime
    /\ now' = now + 1
    /\ UNCHANGED <<manager, pg, stream, app, hist, codec>>

NextTrickle ==
    \/ TrickleTick
    \/ \E input_byte \in Alphabet(pg.protocol_class) : Trickle(input_byte)
    \/ ProcessDeadlines

SpecTrickle == InitTrickle /\ [][NextTrickle]_vars

\* C31: while a frame is being received the incoming deadline stands at the
\* clock reading of the byte that took the parser out of IDLE when
\* incoming_packet_timeout is set, and is never armed when it is None; a
\* parse_byte that finds the parser in a frame and leaves it in the frame
\* does not change the deadline; and a process() call during a frame fires
\* the incoming-timeout observer exactly when its clock reading is more than
\* the timeout past that first byte.
C31_DeadlineArmedOncePerFrame ==
    [][/\ pg'.parser_status # IDLE
          => pg'.incoming_packet_t0 = IF pg'.incoming_packet_timeout # NoTimeout
                                      THEN pg'.frame_started_at ELSE 0
       /\ pg'.incoming_packet_timeout = NoTimeout => pg'.incoming_packet_t0 = 0
       /\ (hist'.op = "parse" /\ pg.parser_status # IDLE /\ pg'.parser_status # IDLE)
          => /\ pg'.incoming_packet_t0 = pg.incoming_packet_t0
             /\ pg'.frame_started_at = pg.frame_started_at
       /\ (/\ hist'.op = "process"
           /\ pg.parser_status # IDLE
           /\ pg.incoming_packet_timeout # NoTimeout)
          => (Len(pg'.on_incoming_packet_timeout_calls)
              > Len(pg.on_incoming_packet_timeout_calls)
              <=> now > pg.frame_started_at + pg.incoming_packet_timeout)]_vars

\* C31 witness: the second byte of a frame arrived after the clock had
\* advanced and the deadline still stands at the first byte's reading
C31_SecondByteLater ==
    /\ hist.op = "parse"
    /\ pg.incoming_packet_timeout # NoTimeout
    /\ pg.parser_status # IDLE
    /\ Len(pg.rx_buffer) = 2
    /\ hist.t > pg.frame_started_at
    /\ pg.incoming_packet_t0 = pg.frame_started_at

\* C34: whenever parse_byte returns with parser_status IDLE, rx_buffer is
\* empty and the incoming deadline is disarmed, whatever the bytes were
\* (a backspace that empties the buffer and a start test that answers
\* STARTING and then IDLE included)
C34_IdleMeansClean ==
    (hist.op = "parse" /\ pg.parser_status = IDLE)
    => (pg.rx_buffer = <<>> /\ pg.incoming_packet_t0 = 0)

(***************************************************************************)
(* SpecSend: send_packet under every protocol class. The application sends *)
(* ping (response_required pong), evt (no response_required), ack          *)
(* (response_required None) and nope, a name no protocol defines; TLV, LTV *)
(* and Text have the base get_packet_from_name_and_args, which raises for  *)
(* every name.                                                             *)
(***************************************************************************)
SendRunNames == SendNames \cup {"ack", "nope"}

InitSend ==
    /\ \E cls \in Protocols, timeout \in {NoTimeout, TimeoutValue} :
          pg = StreamParserGenerator(cls, timeout, timeout)
    /\ stream = UartStream
    /\ now = 1
    /\ app = AppInit
    /\ hist = HistInit
    /\ codec = CodecIdle
    /\ manager = Manager

NextSend ==
    \/ Tick
    \/ \E name \in SendRunNames, write_ok \in BOOLEAN : SendPacket(name, write_ok)

SpecSend == InitSend /\ [][NextSend]_vars

\* a send_packet call was made in this step
SendPacketStep == app'.calls = app.calls + 1 /\ app'.call = "send_packet"

\* C27: a send_packet call whose packet cannot be generated raises to its
\* caller, invokes no on_tx_packet, writes nothing to the stream and leaves
\* response_pending and the response deadline as they were; under TLV, LTV
\* and Text every send_packet call is such a call.
C27_GenerationFailureChangesNothing ==
    [][SendPacketStep
       => /\ get_packet_from_name_and_args(pg.protocol_class, app'.sent).err # "none"
             => /\ app'.ret.kind = "raised"
                /\ pg'.raised = "PerilibProtocolException"
                /\ pg'.on_tx_packet_calls = pg.on_tx_packet_calls
                /\ stream' = stream
                /\ pg'.response_pending = pg.response_pending
                /\ pg'.response_packet_t0 = pg.response_packet_t0
          /\ pg.protocol_class \in {"TLV", "LTV", "Text"}
             => app'.ret.kind = "raised"]_vars

\* C27 witness: ping was sent and is awaiting pong, then send_packet of a
\* name without a definition raised; the rendezvous stands, one packet was
\* announced and one written
C27_FailedSendDuringRendezvous ==
    /\ app.call = "send_packet"
    /\ app.sent = "nope"
    /\ app.ret.kind = "raised"
    /\ pg.response_pending = "pong"
    /\ pg.response_packet_t0 # 0
    /\ Len(pg.on_tx_packet_calls) = 1
    /\ Len(stream.tx) = 1

\* C30: a send_packet call that returns changes the rendezvous only as the
\* definition of the packet sent demands: with a response_required r that is
\* not None and a successful write, r is pending and the response deadline
\* is armed at the time of the call; with no response_required, or with
\* response_required None, response_pending and the response deadline are
\* what they were before the call.
C30_SendSetsRendezvousAsDefined ==
    [][(SendPacketStep /\ app'.ret.kind # "raised")
       => \E made \in {get_packet_from_name_and_args(pg.protocol_class, app'.sent)} :
             IF made.definition.has_response_required
                /\ made.definition.response_required # None
             THEN app'.ret.kind = "int"
                  => /\ pg'.response_pending = made.definition.response_required
                     /\ pg'.response_packet_t0 = now
             ELSE /\ pg'.response_pending = pg.response_pending
                  /\ pg'.response_packet_t0 = pg.response_packet_t0]_vars

(***************************************************************************)
(* SpecBlob: the framing run of SpecParse for the Blob protocol, whose     *)
(* frames are three bytes: the length prefix of a uint8a-l8v field and two *)
(* bytes of data. A frame whose first byte is not 2 declares a length that *)
(* differs from the bytes that remain.                                     *)
(***************************************************************************)
InitBlob ==
    /\ pg = StreamParserGenerator("Blob", NoTimeout, NoTimeout)
    /\ stream = UartStream
    /\ now = 1
    /\ app = AppInit
    /\ hist = HistInit
    /\ codec = CodecIdle
    /\ manager = Manager

NextBlob ==
    \E input_data \in ParseInputs("Blob") : Parse(input_data)

SpecBlob == InitBlob /\ [][NextBlob]_vars

\* the buffers handed to get_packet_from_buffer whose length prefix differs
\* from the number of bytes after it
Mismatched(p) ==
    SelectSeq(p.handed, LAMBDA buffer : buffer[1] # Len(buffer) - 1)

\* C25: every completed frame whose length prefix does not match has been
\* reported through on_rx_error, no exception has left parse(), and the
\* parser was reset after it: with whole frames fed it is IDLE with an empty
\* buffer.
C25_LengthMismatchReported ==
    hist.op = "parse"
    => /\ pg.raised = "none"
       /\ pg.on_rx_error_calls = Mismatched(pg)
       /\ Len(hist.fed) % 3 = 0 => pg.parser_status = IDLE /\ pg.rx_buffer = <<>>

(***************************************************************************)
(* SpecQueue: a fresh parser/generator of one of the protocols, without    *)
(* timeouts, and an application that interleaves queue() and process().    *)
(* hist.fed lists the bytes queued so far.                                 *)
(***************************************************************************)
\* the application calls queue(input_data)
Queue(input_data) ==
    /\ Len(hist.fed) + Len(input_data.v) <= MaxQueued
    /\ pg' = queue(pg, input_data)
    /\ hist' = [hist EXCEPT !.op = "queue", !.fed = @ \o input_data.v]
    /\ UNCHANGED <<manager, stream, now, app, codec>>

\* the application calls process() with bytes waiting in the queue
ProcessQueue ==
    /\ pg.rx_deque # <<>>
    /\ pg' = process(pg, now)
    /\ hist' = [hist EXCEPT !.op = "process"]
    /\ UNCHANGED <<manager, stream, now, app, codec>>

NextQueue ==
    \/ \E input_data \in ParseInputs(pg.protocol_class) : Queue(input_data)
    \/ ProcessQueue

SpecQueue == InitParse /\ [][NextQueue]_vars

\* parse_byte on each byte of data in turn, whatever the calls raise
RECURSIVE ParseEach(_, _, _)
ParseEach(p, data, t) ==
    IF data = <<>> THEN p
    ELSE Only({ParseEach(q, Tail(data), t) :
               q \in {parse_byte([p EXCEPT !.raised = "none"], Head(data), t)}})

\* C15: however queue() and process() calls interleave, the bytes waiting in
\* the queue are the last bytes queued, in order, and the on_rx_packet
\* invocations and the parser state are those of parsing the bytes before
\* them one by one in the order they were queued.
C15_QueueOrder ==
    hist.op \in {"queue", "process"}
    => \E n \in {Len(hist.fed) - Len(pg.rx_deque)} :
          /\ pg.rx_deque = Drop(hist.fed, n)
          /\ Observed(pg) =
             Observed(ParseEach(StreamParserGenerator(pg.protocol_class,
                                                      NoTimeout, NoTimeout),
                                Take(hist.fed, n), now))

\* C15 witness: a process() call delivered one frame and parsed the start of
\* the next, and the bytes queued since then wait behind it in order
C15_QueuedBehindPartialFrame ==
    /\ hist.op = "queue"
    /\ Len(pg.on_rx_packet_calls) = 1
    /\ pg.rx_buffer # <<>>
    /\ pg.rx_deque # <<>>
    /\ hist.fed = pg.on_rx_packet_calls[1].buffer \o pg.rx_buffer \o pg.rx_deque

(***************************************************************************)
(* SpecStream: a new UartStream with a parser/generator of the Cmd         *)
(* protocol attached. Its serial port is closed, as when UartManager made  *)
(* the stream, or was opened by the application before; its on_rx_data     *)
(* observer is the manager's, None unless the application assigned one.    *)
(* The application opens and closes the stream and calls its process       *)
(* step; the device sends bytes or goes away. hist.fed lists the bytes     *)
(* read from the port.                                                     *)
(***************************************************************************)
StreamPortData == {<<>>, <<SYNC>>, <<SYNC, 2>>, <<SYNC, 3>>, ReadError}

InitStream ==
    /\ pg = StreamParserGenerator("Cmd", NoTimeout, NoTimeout)
    /\ \E port_is_open \in BOOLEAN, rx_observer \in {None, "queue"} :
          stream = NewUartStream(port_is_open, rx_observer)
    /\ now = 1
    /\ app = AppInit
    /\ hist = HistInit
    /\ codec = CodecIdle
    /\ manager = Manager

\* the application calls stream.open(); the driver opens the port or raises
OpenStream(open_ok) ==
    /\ stream.on_disconnect_device_calls < MaxCalls
    /\ \E r \in {UartStream_open(stream, open_ok)} :
          /\ stream' = r.stream
          /\ hist' = [hist EXCEPT !.op = IF r.raised = "none" THEN "open"
                                         ELSE "open_failed"]
    /\ UNCHANGED <<manager, pg, now, app, codec>>

\* the application calls stream.close()
CloseStream ==
    /\ stream' = UartStream_close(stream)
    /\ hist' = [hist EXCEPT !.op = "close"]
    /\ UNCHANGED <<manager, pg, now, app, codec>>

\* the application calls stream.process()
StreamRead(in_waiting) ==
    /\ CanRead(in_waiting)
    /\ \E r \in {UartStream_process(stream, pg, in_waiting, now)} :
          /\ pg' = r.pg
          /\ stream' = r.stream
    /\ hist' = [ProcessHist(pg, stream, in_waiting, now)
                  EXCEPT !.fed = IF stream.is_open /\ in_waiting # ReadError
                                 THEN hist.fed \o in_waiting ELSE hist.fed]
    /\ UNCHANGED <<manager, now, app, codec>>

NextStream ==
    \/ \E open_ok \in BOOLEAN : OpenStream(open_ok)
    \/ CloseStream
    \/ \E in_waiting \in StreamPortData : StreamRead(in_waiting)

SpecStream == InitStream /\ [][NextStream]_vars

\* C22: after any sequence of open() and close() calls, when close() has
\* returned the stream is marked not open, and when open() has returned the
\* stream is marked open and its port is open.
C22_OpenCloseReversible ==
    /\ hist.op = "close" => ~stream.is_open
    /\ hist.op = "open" => stream.is_open /\ stream.port_is_open

\* C23: a process step of an open stream whose poll of the port raises
\* leaves the stream marked closed and has called on_disconnect_device
\* exactly once.
C23_ReadErrorEndsStream ==
    [][hist'.op = "read_failed"
       => /\ ~stream'.is_open
          /\ stream'.on_disconnect_device_calls
             = stream.on_disconnect_device_calls + 1]_vars

\* C24: the bytes the process steps have read from the port have reached
\* the parser/generator in the order read: its on_rx_packet invocations and
\* its framing state are those of parsing these bytes.
C24_BytesReachParser ==
    Observed(pg)
    = Observed(ParseEach(StreamParserGenerator("Cmd", NoTimeout, NoTimeout),
                         hist.fed, now))

(***************************************************************************)
(* SpecCodec: a field list and a value map valid for it; the application   *)
(* calls pack_values(V, F) and then unpack_values on the buffer it got.    *)
(***************************************************************************)
\* the field types of a codec run (the 32-bit and float types left out)
CodecTypes ==
    {"uint8", "uint16", "int8", "int16", "macaddr",
     "uint8a-l8v", "uint8a-l16v", "uint8a-greedy", "uint8a-fixed"}

FieldNames == <<"a", "b", "c", "d">>

\* values a field of each type can be given
ValuesOf(ty) ==
    CASE ty = "uint8"         -> {IntVal(0), IntVal(255)}
      [] ty = "uint16"        -> {IntVal(258)}
      [] ty = "int8"          -> {IntVal(-1)}
      [] ty = "int16"         -> {IntVal(-2)}
      [] ty = "macaddr"       -> {BytesVal(<<1, 2, 3, 4, 5, 6>>)}
      [] ty = "uint8a-l8v"    -> {BytesVal(<<>>), BytesVal(<<7>>)}
      [] ty = "uint8a-l16v"   -> {BytesVal(<<7, 8>>)}
      [] ty = "uint8a-greedy" -> {BytesVal(<<>>), BytesVal(<<9>>)}
      [] ty = "uint8a-fixed"  -> {BytesVal(<<7, 8>>)}

\* the field lists: 1..MaxFields fields, named by position
FieldLists ==
    UNION {{[i \in 1..n |-> Field(FieldNames[i], tys[i],
                                  IF tys[i] = "uint8a-fixed" THEN 2 ELSE 0)] :
               tys \in [1..n -> CodecTypes]}
           : n \in 1..MaxFields}

\* the value maps valid for a field list
RECURSIVE ValueMaps(_)
ValueMaps(fields) ==
    IF fields = <<>> THEN {NoValues}
    ELSE LET n == Len(fields)
             last == fields[n]
         IN {[k \in DOMAIN m \cup {last.name} |-> IF k = last.name THEN v ELSE m[k]] :
                m \in ValueMaps(Take(fields, n - 1)), v \in ValuesOf(last.type)}

InitCodec ==
    /\ \E fields \in FieldLists : \E values \in ValueMaps(fields) :
          codec = [CodecIdle EXCEPT !.pc = "init", !.fields = fields, !.values = values]
    /\ manager = Manager
    /\ pg = StreamParserGenerator("Cmd", NoTimeout, NoTimeout)
    /\ stream = UartStream
    /\ now = 1
    /\ app = AppInit
    /\ hist = HistInit

\* buffer = pack_values(V, F)
Pack ==
    /\ codec.pc = "init"
    /\ \E r \in {pack_values(codec.values, codec.fields,
                                calculate_packing_info(codec.fields))} :
          codec' = [codec EXCEPT !.pc = "packed", !.buffer = r.buffer, !.packed = r.err]
    /\ UNCHANGED <<manager, pg, stream, now, app, hist>>

\* unpack_values(buffer, F)
Unpack ==
    /\ codec.pc = "packed"
    /\ codec.packed = "none"
    /\ \E r \in {unpack_values(codec.buffer, codec.fields,
                                  calculate_packing_info(codec.fields))} :
          codec' = [codec EXCEPT !.pc = "unpacked", !.unpacked = r.values,
                                 !.unpacked_err = r.err]
    /\ UNCHANGED <<manager, pg, stream, now, app, hist>>

NextCodec == Pack \/ Unpack

SpecCodec == InitCodec /\ [][NextCodec]_vars

(***************************************************************************)
(* Properties of the codec run (SpecCodec).                                *)
(***************************************************************************)
\* C9: pack_values(V, F) returns a buffer, and unpack_values of that buffer
\* returns V.
C9_RoundTrip ==
    /\ codec.pc \in {"packed", "unpacked"} => codec.packed = "none"
    /\ codec.pc = "unpacked" => codec.unpacked_err = "none" /\ codec.unpacked = codec.values

(***************************************************************************)
(* SpecCache: the application computes calculate_packing_info(F) once,     *)
(* keeps the record (codec.info) and passes it to every pack_values and    *)
(* unpack_values call on F.                                                *)
(***************************************************************************)
InitCache ==
    /\ \E fields \in FieldLists : \E values \in ValueMaps(fields) :
          codec = [CodecIdle EXCEPT !.pc = "init", !.fields = fields, !.values = values,
                                    !.info = calculate_packing_info(fields)]
    /\ manager = Manager
    /\ pg = StreamParserGenerator("Cmd", NoTimeout, NoTimeout)
    /\ stream = UartStream
    /\ now = 1
    /\ app = AppInit
    /\ hist = HistInit

\* pack_values(V, F, info), a first and a second time
PackCached ==
    /\ codec.pc \in {"init", "packed"}
    /\ \E r \in {pack_values(codec.values, codec.fields, codec.info)} :
          codec' = [codec EXCEPT !.pc = IF codec.pc = "init" THEN "packed"
                                        ELSE "repacked",
                                 !.buffer = r.buffer, !.packed = r.err,
                                 !.info = r.packing_info]
    /\ UNCHANGED <<manager, pg, stream, now, app, hist>>

\* unpack_values(buffer, F, info) of the buffer the last pack returned
UnpackCached ==
    /\ codec.pc \in {"packed", "repacked"}
    /\ codec.packed = "none"
    /\ \E r \in {unpack_values(codec.buffer, codec.fields, codec.info)} :
          codec' = [codec EXCEPT !.pc = "unpacked", !.unpacked = r.values,
                                 !.unpacked_err = r.err]
    /\ UNCHANGED <<manager, pg, stream, now, app, hist>>

NextCache == PackCached \/ UnpackCached

SpecCache == InitCache /\ [][NextCache]_vars

\* C32: the record the application keeps is the record
\* calculate_packing_info(F) returns, after any calls; every pack with it
\* returns what a pack with a new record returns, and every unpack with it
\* what an unpack with a new record returns.
C32_PackingInfoReusable ==
    /\ codec.info = calculate_packing_info(codec.fields)
    /\ codec.pc \in {"packed", "repacked"}
       => \E r \in {pack_values(codec.values, codec.fields,
                                 calculate_packing_info(codec.fields))} :
             codec.packed = r.err /\ codec.buffer = r.buffer
    /\ codec.pc = "unpacked"
       => \E r \in {unpack_values(codec.buffer, codec.fields,
                                   calculate_packing_info(codec.fields))} :
             codec.unpacked_err = r.err /\ codec.unpacked = r.values


(***************************************************************************)
(* SpecWire: a UartManager whose application has set the manager's packet  *)
(* observers and a protocol class with both timeouts. A process() call of  *)
(* the manager finds port 1 and, if auto_open says so, makes the stream's  *)
(* parser/generator; the application then sends with it, hands it bytes    *)
(* and calls its process() as time passes.                                 *)
(***************************************************************************)
WirePort == 1

InitWire ==
    /\ pg = StreamParserGenerator("Cmd", NoTimeout, NoTimeout)
    /\ stream = UartStream
    /\ now = 1
    /\ app = AppInit
    /\ hist = HistInit
    /\ codec = CodecIdle
    /\ \E auto_open \in {AUTO_OPEN_NONE, AUTO_OPEN_SINGLE, AUTO_OPEN_ALL} :
          manager = [Manager EXCEPT
                        !.class = "UartManager",
                        !.protocol_class = "Cmd",
                        !.protocol_timeouts =
                            [incoming_packet_timeout |-> TimeoutValue,
                             response_packet_timeout |-> TimeoutValue],
                        !.on_rx_packet = "rx_packet_observer",
                        !.on_tx_packet = "tx_packet_observer",
                        !.on_rx_error = "rx_error_observer",
                        !.on_incoming_packet_timeout = "incoming_timeout_observer",
                        !.on_waiting_packet_timeout = "waiting_timeout_observer",
                        !.auto_open = auto_open]

\* the manager has attached a parser/generator to the stream of the port
Wired ==
    /\ WirePort \in DOMAIN manager.streams
    /\ manager.streams[WirePort].parser_generator # <<>>

WirePG == manager.streams[WirePort].parser_generator[1]

\* the application calls manager.process(PROCESS_SELF, force=True)
WireConnect(comports) ==
    /\ manager' = UartManager_process(manager, comports, {}, TRUE, SELF, TRUE, now)
    /\ hist' = [HistInit EXCEPT !.op = "connect", !.t = now, !.fed = hist.fed]
    /\ UNCHANGED <<pg, stream, now, app, codec>>

\* manager.streams[port].parser_generator.send_packet(name)
WireSend(name) ==
    /\ Wired
    /\ app.calls < MaxCalls
    /\ \E r \in {send_packet(WirePG, name, TRUE, now)} :
          manager' = [manager EXCEPT
                         !.streams[WirePort].parser_generator = <<r.pg>>]
    /\ app' = [app EXCEPT !.calls = @ + 1]
    /\ hist' = [HistInit EXCEPT !.op = "send_packet", !.t = now,
                                !.fed = hist.fed]
    /\ UNCHANGED <<pg, stream, now, codec>>

\* manager.streams[port].parser_generator.parse(input_byte)
WireParse(input_byte) ==
    /\ Wired
    /\ Len(hist.fed) < MaxTrickle
    /\ \E r \in {parse(WirePG, IntVal(input_byte), now)} :
          manager' = [manager EXCEPT
                         !.streams[WirePort].parser_generator = <<r>>]
    /\ hist' = [HistInit EXCEPT !.op = "parse", !.t = now,
                                !.fed = Append(hist.fed, input_byte)]
    /\ UNCHANGED <<pg, stream, now, app, codec>>

\* manager.streams[port].parser_generator.process()
WireProcess ==
    /\ Wired
    /\ hist.op # "process"
    /\ \E r \in {process(WirePG, now)} :
          manager' = [manager EXCEPT
                         !.streams[WirePort].parser_generator = <<r>>]
    /\ hist' = [HistInit EXCEPT !.op = "process", !.t = now, !.fed = hist.fed]
    /\ UNCHANGED <<pg, stream, now, app, codec>>

NextWire ==
    \/ TrickleTick
    \/ \E comports \in {<<>>, <<WirePort>>} : WireConnect(comports)
    \/ \E name \in {"ping", "pong"} : WireSend(name)
    \/ \E input_byte \in Alphabet("Cmd") : WireParse(input_byte)
    \/ WireProcess

SpecWire == InitWire /\ [][NextWire]_vars

\* the step of SpecWire just taken, by a parser/generator that differs from
\* the manager's only in having an observer in every attribute it calls
WithObservers ==
    IF hist'.op = "parse"
    THEN parse([WirePG EXCEPT !.callbacks = AppObservers],
               IntVal(hist'.fed[Len(hist'.fed)]), now)
    ELSE process([WirePG EXCEPT !.callbacks = AppObservers], now)

\* the attribute the parser/generator calls holds the manager's observer,
\* and the parser/generator has called it in this step
Invokes(attribute, observer, before, after) ==
    /\ observer # None
    /\ WirePG'.callbacks[attribute] = observer
    /\ Len(after) > Len(before)

\* C33: the observers set on the manager are the ones the parser/generator
\* it makes at auto-open calls: where a parser/generator calls its packet,
\* error, incoming-timeout or waiting-timeout observer, the manager's
\* on_rx_packet, on_rx_error, on_incoming_packet_timeout or
\* on_waiting_packet_timeout observer is called
C33_ManagerObserversUsed ==
    [][(Wired /\ Wired' /\ hist'.op \in {"parse", "process"}) =>
       /\ Len(WithObservers.on_rx_packet_calls) > Len(WirePG.on_rx_packet_calls)
          => Invokes("on_rx_packet", manager.on_rx_packet,
                     WirePG.on_rx_packet_calls, WirePG'.on_rx_packet_calls)
       /\ Len(WithObservers.on_rx_error_calls) > Len(WirePG.on_rx_error_calls)
          => Invokes("on_rx_error", manager.on_rx_error,
                     WirePG.on_rx_error_calls, WirePG'.on_rx_error_calls)
       /\ Len(WithObservers.on_incoming_packet_timeout_calls)
          > Len(WirePG.on_incoming_packet_timeout_calls)
          => Invokes("on_incoming_packet_timeout",
                     manager.on_incoming_packet_timeout,
                     WirePG.on_incoming_packet_timeout_calls,
                     WirePG'.on_incoming_packet_timeout_calls)
       /\ Len(WithObservers.on_response_packet_timeout_calls)
          > Len(WirePG.on_response_packet_timeout_calls)
          => Invokes("on_response_packet_timeout",
                     manager.on_waiting_packet_timeout,
                     WirePG.on_response_packet_timeout_calls,
                     WirePG'.on_response_packet_timeout_calls)]_vars


(***************************************************************************)
(* SpecRace: the queue monitor thread is running (start()) and calls       *)
(* process() again and again while the application thread runs             *)
(* send_and_wait("ping") on a threaded stream, one statement of            *)
(* send_packet at a time; the device answers with a pong frame at any time *)
(* after the write, and the stream's thread puts its bytes in the queue.   *)
(***************************************************************************)
InitRace ==
    /\ \E timeout \in {NoTimeout, TimeoutValue} :
          pg = StreamParserGenerator("Cmd", timeout, timeout)
    /\ stream = [UartStream EXCEPT !.use_threading = TRUE]
    /\ now = 1
    /\ app = AppInit
    /\ hist = HistInit
    /\ codec = CodecIdle
    /\ manager = Manager

\* send_packet up to and including stream.write (lines 342-348)
RaceWrite ==
    /\ app.pc = "idle"
    /\ app.calls = 0
    /\ \E r \in {send_packet(pg, "ping", TRUE, now)} :
          /\ pg' = [r.pg EXCEPT !.response_pending = pg.response_pending,
                                !.response_packet_t0 = pg.response_packet_t0]
          /\ stream' = [stream EXCEPT !.tx = Append(@, r.written)]
    /\ app' = [app EXCEPT !.call = "send_and_wait", !.sent = "ping",
                          !.response_required = ResponseRequired(pg, "ping"),
                          !.pc = "written", !.calls = 1]
    /\ hist' = HistInit
    /\ UNCHANGED <<manager, now, codec>>

\* self.response_pending = packet.definition["response_required"] (line 352)
RaceSetPending ==
    /\ app.pc = "written"
    /\ pg' = [pg EXCEPT !.response_pending = app.response_required]
    /\ app' = [app EXCEPT !.pc = "pending_set"]
    /\ hist' = HistInit
    /\ UNCHANGED <<manager, stream, now, codec>>

\* self._response_packet_t0 = time.time() (lines 353-354), the return of
\* send_packet and the entry of wait_packet()
RaceArm ==
    /\ app.pc = "pending_set"
    /\ pg' = IF pg.response_pending # None
             THEN [pg EXCEPT !.response_packet_t0 = now] ELSE pg
    /\ app' = [app EXCEPT !.pc = "loop"]
    /\ hist' = HistInit
    /\ UNCHANGED <<manager, stream, now, codec>>

\* the device answers the ping: the stream's thread queues a pong frame
DeviceResponds ==
    /\ stream.tx # <<>>
    /\ stream.reads = 0
    /\ pg' = queue(pg, BytesVal(<<SYNC, 2>>))
    /\ stream' = [stream EXCEPT !.reads = 1]
    /\ hist' = HistInit
    /\ UNCHANGED <<manager, now, app, codec>>

\* one turn of the loop of _watch_rx_queue; an exception ends the thread
MonitorProcess ==
    /\ pg.raised = "none"
    /\ \E r \in {process(pg, now)} : pg' = r
    /\ hist' = [HistInit EXCEPT !.op = "process", !.t = now]
    /\ UNCHANGED <<manager, stream, now, app, codec>>

NextRace ==
    \/ Tick
    \/ RaceWrite
    \/ RaceSetPending
    \/ RaceArm
    \/ DeviceResponds
    \/ MonitorProcess
    \/ WaitEnter

SpecRace == InitRace /\ [][NextRace]_vars

\* the monitor thread has parsed the response to the ping
ResponseParsed ==
    \E i \in DOMAIN pg.on_rx_packet_calls : pg.on_rx_packet_calls[i].name = "pong"

\* C38: with the monitor thread running, a response parsed at any time after
\* the write satisfies the wait of send_and_wait: once it has been parsed
\* and no timeout has fired, wait_packet finds no name pending, in every
\* interleaving of the two threads
C38_NoLostResponse ==
    (app.pc = "loop" /\ ResponseParsed /\ ~pg.wait_timed_out)
    => pg.response_pending = None


(***************************************************************************)
(* SpecLate: a parser/generator of the Cmd protocol with both timeouts set *)
(* or both None, new or after a send_packet("ping"); bytes are queued one  *)
(* at a time as the clock advances, and process() is called at any time.   *)
(***************************************************************************)
InitLate ==
    /\ \E timeout \in {NoTimeout, TimeoutValue}, sent \in BOOLEAN :
          pg = IF sent
               THEN send_packet(StreamParserGenerator("Cmd", timeout, timeout),
                                "ping", TRUE, 1).pg
               ELSE StreamParserGenerator("Cmd", timeout, timeout)
    /\ stream = UartStream
    /\ now = 1
    /\ app = AppInit
    /\ hist = HistInit
    /\ codec = CodecIdle
    /\ manager = Manager

NextLate ==
    \/ TrickleTick
    \/ \E input_byte \in Alphabet("Cmd") : Queue(IntVal(input_byte))
    \/ ProcessDeadlines

SpecLate == InitLate /\ [][NextLate]_vars

\* the bytes buffered and queued at the entry of process() are together
\* one frame of the packet called name, the queue holding its last byte
QueueCompletes(p, name) ==
    /\ p.rx_deque # <<>>
    /\ p.rx_buffer # <<>> => p.parser_status # IDLE
    /\ \E i \in DOMAIN CmdDefinitions :
          /\ CmdDefinitions[i].name = name
          /\ p.rx_buffer \o p.rx_deque = <<SYNC, CmdDefinitions[i].id>>

\* C39: process() parses the queue before it checks the deadlines: when the
\* queue holds the rest of the frame in progress (or the whole awaited
\* response), the packet is delivered in that call and the incoming-timeout
\* (or waiting-timeout) observer is not called in it, however late the call
C39_DrainBeforeDeadlines ==
    [][hist'.op = "process" =>
       \A name \in {"pong", "evt"} :
          QueueCompletes(pg, name) =>
             /\ Len(pg'.on_rx_packet_calls) = Len(pg.on_rx_packet_calls) + 1
             /\ pg'.rx_packet.name = name
             /\ pg'.on_incoming_packet_timeout_calls
                = pg.on_incoming_packet_timeout_calls
             /\ pg.response_pending = name
                => /\ pg'.response_pending = None
                   /\ pg'.response_packet_t0 = 0
                   /\ pg'.raised = "none"
                   /\ pg'.on_response_packet_timeout_calls
                      = pg.on_response_packet_timeout_calls]_vars

\* a process() call after both deadlines had passed has delivered the
\* awaited pong, whose first byte was parsed by an earlier call, and no
\* timeout observer has been called
C39_LateCallDelivers ==
    /\ hist.op = "process"
    /\ pg.incoming_packet_timeout # NoTimeout
    /\ hist.t > pg.frame_started_at + pg.incoming_packet_timeout
    /\ pg.parser_status = IDLE
    /\ pg.rx_packet.name = "pong"
    /\ pg.on_tx_packet_calls # <<>>
    /\ pg.response_pending = None
    /\ pg.on_incoming_packet_timeout_calls = <<>>
    /\ pg.on_response_packet_timeout_calls = <<>>

====
